---- MODULE Spec2Model ----
(***************************************************************************)
(* A model of golang-auth/go-sasl (package sasl, registry, gssapi):        *)
(* the mechanism registry, the SaslClient session (mechanism selection in  *)
(* Start, Step, Encode, Decode, ContextParams) and the GSSAPI mechanism's  *)
(* three-state handshake over an external GSSAPI security context.         *)
(*                                                                         *)
(* Byte slices are sequences of 0..255; Go's nil slice is the value Nil.   *)
(* Bit sets over named flags (SecurityFlag, Feature, ContextFlag) are sets *)
(* of flag names; the qop bit mask, which travels in a byte, is a number.  *)
(* Go's uint is a machine word: SSF arithmetic is done modulo 2^UintBits.  *)
(***************************************************************************)
EXTENDS Integers, Sequences, FiniteSets, TLC

VARIABLES
    mechs,      \* registry.mechs: name -> [factory, properties]
    client,     \* the SaslClient
    gss,        \* the GSSAPIMech instance (NoGss when there is none)
    direct,     \* TRUE when gss was built by the caller with gssapi.NewMech
    ctx,        \* what is known of the external GSSAPI context
    calls,      \* mechanism and external-context calls made by the last operation
    ret,        \* the last operation, its input and what it returned
    enc         \* input and output of the last successful SaslClient.Encode

vars == <<mechs, client, gss, direct, ctx, calls, ret, enc>>

(***************************************************************************)
(* Bounds of the model.                                                    *)
(***************************************************************************)
\* Width of Go's uint in the model (the program's is 64).
UintBits == 12
\* Longest candidate mechanism list handed to WithMechList.
MaxMechs == 3
\* Longest unwrapped peer negotiation token.
MaxTokenLen == 5
\* Wrap fails at most MaxWrapFailures times on one context.
MaxWrapFailures == 1

UintMod == 2 ^ UintBits
UintMax == UintMod - 1

UintAdd(a, b) == (a + b) % UintMod
UintSub(a, b) == (a - b + UintMod) % UintMod

\* Go's nil []byte, as opposed to the empty slice << >>.
Nil == << -1 >>
ByteLen(b) == IF b = Nil THEN 0 ELSE Len(b)

(***************************************************************************)
(* common.SecurityFlag, common.Feature, common.MechProps                   *)
(***************************************************************************)
SecNoPlainText     == "SecNoPlainText"
SecNoActive        == "SecNoActive"
SecNoDictionary    == "SecNoDictionary"
SecForwardSecrecy  == "SecForwardSecrecy"
SecNoAnonymous     == "SecNoAnonymous"
SecPassCredentials == "SecPassCredentials"
SecMutualAuth      == "SecMutualAuth"

FeatNeedServerFQDN      == "FeatNeedServerFQDN"
FeatWantClientFirst     == "FeatWantClientFirst"
FeatServerFirst         == "FeatServerFirst"
FeatDontUseUserPassword == "FeatDontUseUserPassword"
FeatGSSFraming          == "FeatGSSFraming"
FeatSupportsHTTP        == "FeatSupportsHTTP"
FeatChannelBindings     == "FeatChannelBindings"

\* The bit operators of Go on flag sets: a & b, a ^ b, a &^ b.
FlagAnd(a, b)    == a \cap b
FlagXor(a, b)    == (a \ b) \cup (b \ a)
FlagAndNot(a, b) == a \ b

MechProps(maxSSF, secProps, features) ==
    [MaxSSF |-> maxSSF, SecurityProperties |-> secProps, Fearures |-> features]

\* common.MechProps{}
ZeroMechProps == MechProps(0, {}, {})

(***************************************************************************)
(* package registry                                                        *)
(***************************************************************************)
mechName == "GSSAPI"

\* The descriptor the gssapi package registers in its init().
GSSAPIProps ==
    MechProps(256,
              {SecNoPlainText, SecNoActive, SecNoAnonymous, SecMutualAuth, SecPassCredentials},
              {FeatNeedServerFQDN, FeatWantClientFirst, FeatChannelBindings})

IsRegistered(name) == name \in DOMAIN mechs

Properties(name) ==
    IF name \in DOMAIN mechs THEN mechs[name].properties ELSE ZeroMechProps

\* The type of the instance a factory builds ("nil": no instance).
FactoryMech(factory) ==
    CASE factory = "gssapi.NewMech" -> "GSSAPIMech"
      [] factory = "newMockMech1"   -> "mockMech1"
      [] factory = "newMockMech2"   -> "mockMech2"
      [] factory = "newMockMech3"   -> "mockMech3"
      [] factory = "newServerFirstMech" -> "serverFirstMech"
      [] OTHER                      -> "nil"

\* NewMechType falling back to the GSSAPI factory for an unknown name.
NewMechType_DefaultsToGSSAPI(name) ==
    IF name \in DOMAIN mechs THEN FactoryMech(mechs[name].factory) ELSE "GSSAPIMech"

NewMechType(name) ==
    IF name \in DOMAIN mechs THEN FactoryMech(mechs[name].factory) ELSE "nil"

Entry(factory, props) == [factory |-> factory, properties |-> props]

\* The registry of TestSaslClientStart: GSSAPI and the three mock mechanisms.
TestRegistry ==
    [n \in {"GSSAPI", "MECH1", "MECH2", "MECH3"} |->
        CASE n = "GSSAPI" -> Entry("gssapi.NewMech", GSSAPIProps)
          [] n = "MECH1"  -> Entry("newMockMech1",
                MechProps(256,
                    {SecNoPlainText, SecNoActive, SecNoAnonymous, SecMutualAuth, SecPassCredentials},
                    {FeatWantClientFirst, FeatDontUseUserPassword}))
          [] n = "MECH2"  -> Entry("newMockMech2",
                MechProps(0, {SecNoAnonymous, SecPassCredentials}, {FeatWantClientFirst}))
          [] n = "MECH3"  -> Entry("newMockMech3",
                MechProps(10, {SecNoPlainText, SecNoAnonymous, SecPassCredentials},
                    {FeatWantClientFirst}))]

\* The descriptor of a mechanism of the common.Mech contract in which the
\* server sends the first token; its MechProperties reports this descriptor.
ServerFirstProps ==
    MechProps(10, {SecNoAnonymous}, {FeatServerFirst, FeatChannelBindings})

\* The same names registered with descriptors that exercise the feature
\* filters of Start (HTTP, channel bindings, server FQDN, server first).
FeatureRegistry ==
    [n \in {"GSSAPI", "MECH1", "MECH2", "MECH3"} |->
        CASE n = "GSSAPI" -> Entry("gssapi.NewMech", GSSAPIProps)
          [] n = "MECH1"  -> Entry("newMockMech1",
                MechProps(256, {SecNoPlainText, SecNoAnonymous},
                    {FeatSupportsHTTP, FeatChannelBindings}))
          [] n = "MECH2"  -> Entry("newMockMech2",
                MechProps(1, {SecNoPlainText, SecNoAnonymous, SecMutualAuth},
                    {FeatNeedServerFQDN, FeatSupportsHTTP}))
          [] n = "MECH3"  -> Entry("newServerFirstMech", ServerFirstProps)]

(***************************************************************************)
(* Bit operations of Go on unsigned numbers.                               *)
(***************************************************************************)
RECURSIVE BitAnd(_, _)
BitAnd(a, b) ==
    IF a = 0 \/ b = 0 THEN 0
    ELSE 2 * BitAnd(a \div 2, b \div 2) + (IF a % 2 = 1 /\ b % 2 = 1 THEN 1 ELSE 0)

RECURSIVE BitOr(_, _)
BitOr(a, b) ==
    IF a = 0 THEN b
    ELSE IF b = 0 THEN a
    ELSE 2 * BitOr(a \div 2, b \div 2) + (IF a % 2 = 1 \/ b % 2 = 1 THEN 1 ELSE 0)

Shl(a, n) == a * (2 ^ n)
Shr(a, n) == a \div (2 ^ n)

(***************************************************************************)
(* package sasl: the SaslClient and mechanism selection                    *)
(***************************************************************************)
channelBindingDispNone == "channelBindingDispNone"
channelBindingDispWant == "channelBindingDispWant"
channelBindingDispMust == "channelBindingDispMust"

ErrNone               == "nil"
ErrNoMech             == "ErrNoMech"
ErrNotStarted         == "ErrNotStarted"
ErrAlreadyEstablished == "ErrAlreadyEstablished"
ErrNotEstablished     == "ErrNotEstablished"
ErrTooWeak            == "ErrTooWeak"

\* A *common.ChannelBinding: present = FALSE is the nil pointer.
NoChannelBinding == [present |-> FALSE, Critical |-> FALSE]
ChannelBinding(critical) == [present |-> TRUE, Critical |-> critical]

\* map[string]string with no key.
NoExtraProps == [k \in {} |-> ""]

\* The SaslClient NewSaslClient builds before it applies the options.
DefaultClient(service) ==
    [service         |-> service,
     mechList        |-> << >>,
     serverFQDN      |-> "",
     minSSF          |-> 0,
     maxSSF          |-> UintMax,
     maxBufSize      |-> 65536,
     secProps        |-> {SecNoAnonymous, SecNoPlainText},
     extProps        |-> [ssf |-> 0],
     needHTTP        |-> FALSE,
     channelBindings |-> NoChannelBinding,
     extraProps      |-> NoExtraProps,
     mech            |-> "nil"]

\* Start, lines 202-208: the SSF still needed on top of the external layer.
NeededSSF(c) ==
    IF c.minSSF < c.extProps.ssf THEN 0 ELSE UintSub(c.minSSF, c.extProps.ssf)

RECURSIVE supportsChannelBindingsFrom(_, _)
supportsChannelBindingsFrom(mechList, i) ==
    IF i > Len(mechList) THEN FALSE
    ELSE IF FlagAnd(Properties(mechList[i]).Fearures, {FeatChannelBindings}) # {} THEN TRUE
    ELSE supportsChannelBindingsFrom(mechList, i + 1)

supportsChannelBindings(mechList) == supportsChannelBindingsFrom(mechList, 1)

\* channelBindingDisposition failing for any request that no candidate
\* supports, critical or not.
channelBindingDisposition_FailsUncritical(c) ==
    IF c.channelBindings.present /\ Len(c.mechList) > 0 /\ ~supportsChannelBindings(c.mechList)
    THEN [disp |-> channelBindingDispNone, err |-> ErrNoMech]
    ELSE IF ~c.channelBindings.present
    THEN [disp |-> channelBindingDispNone, err |-> ErrNone]
    ELSE IF Len(c.mechList) > 0
    THEN [disp |-> channelBindingDispWant, err |-> ErrNone]
    ELSE IF c.channelBindings.Critical
    THEN [disp |-> channelBindingDispMust, err |-> ErrNone]
    ELSE [disp |-> channelBindingDispNone, err |-> ErrNone]

\* The pair (disp, err) channelBindingDisposition returns.
channelBindingDisposition(c) ==
    LET serverSupported == supportsChannelBindings(c.mechList) IN
    IF ~c.channelBindings.present
    THEN [disp |-> channelBindingDispNone, err |-> ErrNone]
    ELSE IF Len(c.mechList) > 0
    THEN IF ~serverSupported /\ c.channelBindings.Critical
         THEN [disp |-> channelBindingDispNone, err |-> ErrNoMech]
         ELSE [disp |-> channelBindingDispWant, err |-> ErrNone]
    ELSE IF c.channelBindings.Critical
    THEN [disp |-> channelBindingDispMust, err |-> ErrNone]
    ELSE [disp |-> channelBindingDispNone, err |-> ErrNone]

\* WantSecProps with the waiver granted for any external layer stronger than
\* the minimum, the test `extProps.ssf > 1` left out.
WantSecProps_NoStrengthTest(c) ==
    IF c.extProps.ssf > c.minSSF
    THEN FlagAndNot(c.secProps, {SecNoPlainText})
    ELSE c.secProps

\* The required properties of one loop iteration, after the waiver of lines 226-230.
WantSecProps(c) ==
    IF c.extProps.ssf > c.minSSF /\ c.extProps.ssf > 1
    THEN FlagAndNot(c.secProps, {SecNoPlainText})
    ELSE c.secProps

\* The body of Start's loop: TRUE when no `continue` is taken for mech.
MechFits(c, cbDisposition, minSSF, mech) ==
    LET mechProps == Properties(mech)
        wantSecProps == WantSecProps(c)
    IN IF minSSF > mechProps.MaxSSF THEN FALSE
       ELSE IF FlagAnd(FlagXor(wantSecProps, mechProps.SecurityProperties), wantSecProps) # {}
       THEN FALSE
       ELSE IF cbDisposition = channelBindingDispMust
               /\ FlagAnd(mechProps.Fearures, {FeatChannelBindings}) = {}
       THEN FALSE
       ELSE IF FlagAnd(mechProps.Fearures, {FeatNeedServerFQDN}) # {} /\ c.serverFQDN = ""
       THEN FALSE
       ELSE IF c.needHTTP /\ FlagAnd(mechProps.Fearures, {FeatSupportsHTTP}) = {}
       THEN FALSE
       ELSE TRUE

\* Start's loop from index i on: the chosen mechanism, "" when there is none.
RECURSIVE ChooseMechFrom(_, _, _, _)
ChooseMechFrom(c, cbDisposition, minSSF, i) ==
    IF i > Len(c.mechList) THEN ""
    ELSE IF MechFits(c, cbDisposition, minSSF, c.mechList[i]) THEN c.mechList[i]
    ELSE ChooseMechFrom(c, cbDisposition, minSSF, i + 1)

\* ChooseMech with the loop started at the second candidate.
ChooseMech_SkipFirst(c, cbDisposition) == ChooseMechFrom(c, cbDisposition, NeededSSF(c), 2)

ChooseMech(c, cbDisposition) == ChooseMechFrom(c, cbDisposition, NeededSSF(c), 1)

\* MechConfigOf without the strength of the external layer.
MechConfigOf_NoExternalSSF(c) ==
    [Service        |-> c.service,
     ServerFQDN     |-> c.serverFQDN,
     MinSSF         |-> c.minSSF,
     MaxSSF         |-> c.maxSSF,
     MaxBufSize     |-> c.maxBufSize,
     ExternalSSF    |-> 0,
     SecProps       |-> c.secProps,
     HTTPMode       |-> c.needHTTP,
     ExtraProps     |-> c.extraProps,
     ChannelBinding |-> c.channelBindings]

\* The common.MechConfig Start hands to the factory.
MechConfigOf(c) ==
    [Service        |-> c.service,
     ServerFQDN     |-> c.serverFQDN,
     MinSSF         |-> c.minSSF,
     MaxSSF         |-> c.maxSSF,
     MaxBufSize     |-> c.maxBufSize,
     ExternalSSF    |-> c.extProps.ssf,
     SecProps       |-> c.secProps,
     HTTPMode       |-> c.needHTTP,
     ExtraProps     |-> c.extraProps,
     ChannelBinding |-> c.channelBindings]

(***************************************************************************)
(* The external GSSAPI security context (github.com/golang-auth/go-gssapi) *)
(* as the gssapi package uses it.  The engine itself is outside the        *)
(* repository: a wrapped message is modelled as the payload behind a       *)
(* one-byte header that tells whether it was sealed, so that Unwrap        *)
(* inverts Wrap; what Initiate, Continue, ContextFlags, SSF and Wrap       *)
(* answer is chosen nondeterministically by the actions below.             *)
(***************************************************************************)
ContextFlagMutual   == "ContextFlagMutual"
ContextFlagSequence == "ContextFlagSequence"
ContextFlagInteg    == "ContextFlagInteg"
ContextFlagConf     == "ContextFlagConf"

Bytes(b) == IF b = Nil THEN << >> ELSE b

WrapToken(data, conf) == << IF conf THEN 2 ELSE 1 >> \o Bytes(data)
UnwrapOk(tok)   == tok # Nil /\ Len(tok) >= 1 /\ tok[1] \in {1, 2}
UnwrapData(tok) == Tail(tok)

\* Wrapping adds a header, and padding when sealing: the largest message
\* whose wrapped form fits in limit bytes.
WrapSizeLimit(limit, conf) ==
    LET overhead == IF conf THEN 44 ELSE 28
    IN IF limit > overhead THEN limit - overhead ELSE 0

\* The context of a new gssapi.Mech, before Initiate.
\* wrapFailures counts the failures of Wrap so far.
NewContext ==
    [initiated |-> 0, principal |-> << >>, requested |-> {}, flags |-> {}, wrapFailures |-> 0]

Call(f, arg, res, ok) == [f |-> f, arg |-> arg, res |-> res, ok |-> ok]
BoolArg(b) == IF b THEN 1 ELSE 0

(***************************************************************************)
(* package gssapi: the GSSAPIMech                                          *)
(***************************************************************************)
layerNone            == 1
layerIntegrity       == 2
layerConfidentiality == 4

stateAuthenticating == 0
stateSSFCap         == 1
stateAuthenticated  == 2

\* No GSSAPIMech instance.
NoGss == [state |-> -1]

\* gssapi.NewMech
NewMech(cfg) ==
    [config            |-> cfg,
     qop               |-> 0,
     ssf               |-> 0,
     state             |-> stateAuthenticating,
     maxOutputBufferSz |-> 0]

\* isTrue accepting the word true as well.
isTrue_AcceptsTrue(val) == val \in {"1", "y", "on", "t", "true"}

isTrue(val) == val = "1" \/ val = "y" \/ val = "on" \/ val = "t"

minUint(a, b) == IF a < b THEN a ELSE b

\* What a mechanism operation yields: the instance and context after it, the
\* calls it made, and the values it returns.
Outcome(m, cx, cs, out, err, tooWeak) ==
    [gss |-> m, ctx |-> cx, calls |-> cs, out |-> out, err |-> err, tooWeak |-> tooWeak]

\* RequestedFlags asking for confidentiality whenever it asks for integrity.
RequestedFlags_ConfWithInteg(cfg) ==
    {ContextFlagMutual, ContextFlagSequence}
    \cup (IF cfg.MaxSSF > cfg.ExternalSSF THEN {ContextFlagInteg, ContextFlagConf} ELSE {})

\* stepAuthenticating, lines 114-121: the flags asked of Initiate.
RequestedFlags(cfg) ==
    {ContextFlagMutual, ContextFlagSequence}
    \cup (IF cfg.MaxSSF > cfg.ExternalSSF
          THEN {ContextFlagInteg}
               \cup (IF UintSub(cfg.MaxSSF, cfg.ExternalSSF) > 1 THEN {ContextFlagConf} ELSE {})
          ELSE {})

\* stepAuthenticating, lines 137-144: the local QOP set from the context flags.
LocalQop(flags) ==
    IF FlagAnd(flags, {ContextFlagInteg}) = {} THEN layerNone
    ELSE IF FlagAnd(flags, {ContextFlagConf}) = {} THEN BitOr(layerNone, layerIntegrity)
    ELSE BitOr(BitOr(layerNone, layerIntegrity), layerConfidentiality)

\* Errors the mechanism builds with errors.New / fmt.Errorf, and the external
\* context's own failures.
ErrMissingServerName == "server FQDN not provided"
ErrBadToken          == "gssapi: bad SSF negotiate token"
ErrNoSecurityLayer   == "no suitable security layer available"
ErrCantEncode        == "can't encode data: no security layer negotiated"
ErrCantDecode        == "can't decode data: no security layer negotiated"
ErrBadState          == "gssapi: step - bad state"
ErrGssInitiate       == "gss: Initiate failed"
ErrGssContinue       == "gss: Continue failed"
ErrGssUnwrap         == "gss: Unwrap failed"
ErrGssWrap           == "gss: Wrap failed"

\* What the external context may answer.
NegotiatedFlagSets == SUBSET {ContextFlagInteg, ContextFlagConf}
ContinueTokens     == {Nil, << 96 >>}
ChannelSSFs        == {0, 1, 2, 56}

\* What ContextFlags may report once the context is established, when it
\* reported flags after Initiate: the same, or less than was asked for.
EstablishedFlagSets(flags) == {flags, flags \ {ContextFlagConf}}

\* EstablishedState with the HTTP mode test left out.
EstablishedState_IgnoreHTTP(cfg) == stateSSFCap

\* stepAuthenticating, lines 152-158: the state entered once the context is
\* established.
EstablishedState(cfg) == IF cfg.HTTPMode THEN stateAuthenticated ELSE stateSSFCap

\* stepAuthenticating, lines 150-165: Continue and the state change.  A failed
\* Continue returns no token and leaves the context unestablished; a successful
\* one returns some token and may have established the context, which then
\* reports the flags that were negotiated.
ContinueOutcomes(m, cx, cs, inToken) ==
    { Outcome(m, cx, Append(cs, Call("ctx.Continue", inToken, Nil, FALSE)),
              Nil, ErrGssContinue, << >>) }
    \cup
    { Outcome(m, cx, Append(cs, Call("ctx.Continue", inToken, out, TRUE)),
              out, ErrNone, << >>) : out \in ContinueTokens }
    \cup
    { Outcome([m EXCEPT !.state = EstablishedState(m.config)],
              [cx EXCEPT !.flags = x.flags],
              Append(cs, Call("ctx.Continue", inToken, x.out, TRUE)),
              IF ~m.config.HTTPMode /\ x.out = Nil THEN << >> ELSE x.out,
              ErrNone, << >>)
      : x \in [out : ContinueTokens, flags : EstablishedFlagSets(cx.flags)] }

\* GSSAPIMech.stepAuthenticating
stepAuthenticating(m, cx, inToken) ==
    IF inToken = Nil
    THEN IF Len(m.config.ServerFQDN) = 0
         THEN { Outcome(m, cx, << >>, Nil, ErrMissingServerName, << >>) }
         ELSE LET flags == RequestedFlags(m.config)
                  cx1   == [cx EXCEPT !.initiated = @ + 1,
                                      !.principal = << m.config.Service, "/", m.config.ServerFQDN >>,
                                      !.requested = flags]
                  init(ok) == Call("ctx.Initiate", << >>, << >>, ok)
              IN { Outcome(m, cx1, << init(FALSE) >>, Nil, ErrGssInitiate, << >>) }
                 \cup
                 UNION { ContinueOutcomes([m EXCEPT !.qop = LocalQop(f)],
                                          [cx1 EXCEPT !.flags = f],
                                          << init(TRUE) >>, << >>)
                         : f \in NegotiatedFlagSets }
    ELSE ContinueOutcomes(m, cx, << >>, inToken)

\* The outcome of a failing Wrap, while the context may still fail.
WrapFailure(cx, o) == IF cx.wrapFailures < MaxWrapFailures THEN {o} ELSE {}

\* AllowedSSF without the guard of line 192: the subtraction wraps.
AllowedSSF_Unguarded(cfg) == UintSub(cfg.MaxSSF, cfg.ExternalSSF)

\* stepSSFCap, lines 191-200.
AllowedSSF(cfg) ==
    IF cfg.MaxSSF >= cfg.ExternalSSF THEN UintSub(cfg.MaxSSF, cfg.ExternalSSF) ELSE 0
NeedSSF(cfg) ==
    IF cfg.MinSSF >= cfg.ExternalSSF THEN UintSub(cfg.MinSSF, cfg.ExternalSSF) ELSE 0

\* stepSSFCap, lines 202-221: the pair (qopChoice, ssf); qopChoice 0 stands for
\* the default branch, which returns the error.
ChooseQop(m, serverQOPOffer, channelSSF) ==
    LET allowedSSF == AllowedSSF(m.config)
        needSSF    == NeedSSF(m.config)
    IN IF BitAnd(m.qop, layerConfidentiality) > 0
          /\ BitAnd(serverQOPOffer, layerConfidentiality) > 0
          /\ allowedSSF >= channelSSF /\ needSSF <= channelSSF
       THEN [qopChoice |->
                IF "ad_compat" \in DOMAIN m.config.ExtraProps
                   /\ isTrue(m.config.ExtraProps["ad_compat"])
                THEN BitOr(layerConfidentiality, layerIntegrity)
                ELSE layerConfidentiality,
             ssf |-> channelSSF]
       ELSE IF BitAnd(m.qop, layerIntegrity) > 0
               /\ BitAnd(serverQOPOffer, layerIntegrity) > 0
               /\ allowedSSF >= 1 /\ needSSF <= 2
       THEN [qopChoice |-> layerIntegrity, ssf |-> 1]
       ELSE IF BitAnd(m.qop, layerNone) > 0
               /\ BitAnd(serverQOPOffer, layerNone) > 0
               /\ needSSF <= 0
       THEN [qopChoice |-> layerNone, ssf |-> 0]
       ELSE [qopChoice |-> 0, ssf |-> m.ssf]

\* PeerBufferSize reading the three bytes from the start of the token.
PeerBufferSize_FromByte0(data) == BitOr(Shl(data[1], 16), Shl(data[2], 8)) + data[3]

\* stepSSFCap, line 226: uint32(data[1])<<16 | uint32(data[2])<<8 + uint32(data[3]);
\* | and + have the same precedence in Go and associate to the left.
PeerBufferSize(data) == BitOr(Shl(data[2], 16), Shl(data[3], 8)) + data[4]

\* ReplyData announcing the buffer size whatever the chosen QOP.
ReplyData_AlwaysSize(cfg, qopChoice) ==
    LET max == minUint(cfg.MaxBufSize, 16777215)
    IN << qopChoice, BitAnd(Shr(max, 16), 255), BitAnd(Shr(max, 8), 255),
          BitAnd(Shr(max, 0), 255) >>

\* stepSSFCap, lines 235-243: the reply before it is wrapped.
ReplyData(cfg, qopChoice) ==
    LET max == minUint(cfg.MaxBufSize, 16777215)
    IN IF qopChoice > 1
       THEN << qopChoice, BitAnd(Shr(max, 16), 255), BitAnd(Shr(max, 8), 255),
               BitAnd(Shr(max, 0), 255) >>
       ELSE << qopChoice, 0, 0, 0 >>

\* GSSAPIMech.stepSSFCap
stepSSFCap(m, cx, inToken) ==
    IF ~UnwrapOk(inToken)
    THEN { Outcome(m, cx, << Call("ctx.Unwrap", inToken, Nil, FALSE) >>,
                   Nil, ErrGssUnwrap, << >>) }
    ELSE
    LET data == UnwrapData(inToken)
        c1   == << Call("ctx.Unwrap", inToken, data, TRUE) >>
    IN IF Len(data) # 4
       THEN { Outcome(m, cx, c1, Nil, ErrBadToken, << >>) }
       ELSE UNION {
         LET c2 == Append(c1, Call("ctx.SSF", << >>, << channelSSF >>, TRUE)) IN
         IF m.config.MinSSF > UintAdd(channelSSF, m.config.ExternalSSF)
         THEN { Outcome(m, cx, c2, Nil, ErrTooWeak,
                        << channelSSF, m.config.ExternalSSF, m.config.MinSSF >>) }
         ELSE
         LET q == ChooseQop(m, data[1], channelSSF) IN
         IF q.qopChoice = 0
         THEN { Outcome(m, cx, c2, Nil, ErrNoSecurityLayer, << >>) }
         ELSE
         LET peer  == PeerBufferSize(data)
             limit == WrapSizeLimit(peer, q.ssf > 1)
             m1 == [m EXCEPT !.ssf = q.ssf,
                             !.maxOutputBufferSz = IF q.ssf > 0 THEN limit ELSE peer]
             c3 == IF q.ssf > 0
                   THEN Append(c2, Call("ctx.WrapSizeLimit",
                                        << peer, BoolArg(q.ssf > 1) >>, << limit >>, TRUE))
                   ELSE c2
             dataOut == ReplyData(m.config, q.qopChoice)
             arg == << BoolArg(FALSE) >> \o dataOut
         IN WrapFailure(cx, Outcome(m1, [cx EXCEPT !.wrapFailures = @ + 1],
                                    Append(c3, Call("ctx.Wrap", arg, Nil, FALSE)),
                                    Nil, ErrGssWrap, << >>))
            \cup
            { Outcome([m1 EXCEPT !.state = stateAuthenticated], cx,
                      Append(c3, Call("ctx.Wrap", arg, WrapToken(dataOut, FALSE), TRUE)),
                      WrapToken(dataOut, FALSE), ErrNone, << >>) }
         : channelSSF \in ChannelSSFs }

\* GssStep with the established state negotiating again.
GssStep_NoTerminal(m, cx, inToken) ==
    CASE m.state = stateAuthenticating -> stepAuthenticating(m, cx, inToken)
      [] m.state = stateSSFCap         -> stepSSFCap(m, cx, inToken)
      [] m.state = stateAuthenticated  -> stepSSFCap(m, cx, inToken)
      [] OTHER -> { Outcome(m, cx, << >>, Nil, ErrBadState, << >>) }

\* GSSAPIMech.Step
GssStep(m, cx, inToken) ==
    CASE m.state = stateAuthenticating -> stepAuthenticating(m, cx, inToken)
      [] m.state = stateSSFCap         -> stepSSFCap(m, cx, inToken)
      [] m.state = stateAuthenticated  ->
            { Outcome(m, cx, << >>, Nil, ErrAlreadyEstablished, << >>) }
      [] OTHER -> { Outcome(m, cx, << >>, Nil, ErrBadState, << >>) }

\* GSSAPIMech.IsEstablished
GssIsEstablished(m) == m.state = stateAuthenticated

\* ContextParams reporting no peer message size.
GssContextParams_NoPeerSize(m) == [SSF |-> m.ssf, MaxPeerMessageSize |-> 0]

\* GSSAPIMech.ContextParams
GssContextParams(m) == [SSF |-> m.ssf, MaxPeerMessageSize |-> m.maxOutputBufferSz]

\* GSSAPIMech.Encode
GssEncode(m, cx, input) ==
    IF m.ssf = 0
    THEN { Outcome(m, cx, << >>, Nil, ErrCantEncode, << >>) }
    ELSE LET arg == << BoolArg(m.ssf > 1) >> \o Bytes(input) IN
         WrapFailure(cx, Outcome(m, [cx EXCEPT !.wrapFailures = @ + 1],
                                 << Call("ctx.Wrap", arg, Nil, FALSE) >>,
                                 Nil, ErrGssWrap, << >>))
         \cup
         { Outcome(m, cx, << Call("ctx.Wrap", arg, WrapToken(input, m.ssf > 1), TRUE) >>,
                   WrapToken(input, m.ssf > 1), ErrNone, << >>) }

\* GSSAPIMech.Decode
GssDecode(m, cx, inputToken) ==
    IF m.ssf = 0
    THEN { Outcome(m, cx, << >>, Nil, ErrCantDecode, << >>) }
    ELSE IF UnwrapOk(inputToken)
    THEN { Outcome(m, cx, << Call("ctx.Unwrap", inputToken, UnwrapData(inputToken), TRUE) >>,
                   UnwrapData(inputToken), ErrNone, << >>) }
    ELSE { Outcome(m, cx, << Call("ctx.Unwrap", inputToken, Nil, FALSE) >>,
                   Nil, ErrGssUnwrap, << >>) }

(***************************************************************************)
(* package sasl: construction of the SaslClient                            *)
(***************************************************************************)
\* TrimRegistered keeping every supplied name.
TrimRegistered_KeepsAll(list) == list

RECURSIVE TrimRegistered(_)
TrimRegistered(list) ==
    IF list = << >> THEN << >>
    ELSE IF IsRegistered(Head(list))
         THEN << Head(list) >> \o TrimRegistered(Tail(list))
         ELSE TrimRegistered(Tail(list))

\* registry.Mechs ranges over a Go map: the names come in any order.
Mechs ==
    LET names == DOMAIN mechs
        n     == Cardinality(names)
    IN { l \in [1..n -> names] : \A i, j \in 1..n : i # j => l[i] # l[j] }

UpperChars ==
    {"A", "B", "C", "D", "E", "F", "G", "H", "I", "J", "K", "L", "M",
     "N", "O", "P", "Q", "R", "S", "T", "U", "V", "W", "X", "Y", "Z"}
LowerChars ==
    {"a", "b", "c", "d", "e", "f", "g", "h", "i", "j", "k", "l", "m",
     "n", "o", "p", "q", "r", "s", "t", "u", "v", "w", "x", "y", "z"}
DigitChars == {"0", "1", "2", "3", "4", "5", "6", "7", "8", "9"}

\* Names of 20 and of 21 characters.
Name20 == "AAAAAAAAAAAAAAAAAAAA"
Name21 == "AAAAAAAAAAAAAAAAAAAAA"

\* The characters of the strings the model passes to a regular expression.
Chars(str) ==
    CASE str = ""        -> << >>
      [] str = "GSSAPI"  -> << "G", "S", "S", "A", "P", "I" >>
      [] str = "TEST"    -> << "T", "E", "S", "T" >>
      [] str = "N-_9"    -> << "N", "-", "_", "9" >>
      [] str = "MECH1"   -> << "M", "E", "C", "H", "1" >>
      [] str = "foo"     -> << "f", "o", "o" >>
      [] str = "bad-mech-name" ->
            << "b", "a", "d", "-", "m", "e", "c", "h", "-", "n", "a", "m", "e" >>
      [] str = "TEST\n"  -> << "T", "E", "S", "T", "\n" >>
      [] str = Name20    -> [i \in 1..Len(Name20) |-> "A"]
      [] str = Name21    -> [i \in 1..Len(Name21) |-> "A"]
      [] str = "imap.example.com" ->
            << "i", "m", "a", "p", ".", "e", "x", "a", "m", "p", "l", "e", ".", "c", "o", "m" >>
      [] str = "bad_host" -> << "b", "a", "d", "_", "h", "o", "s", "t" >>
      [] str = "a-.b"    -> << "a", "-", ".", "b" >>

\* validHostnameRegex.Match: dot-separated labels of letters, digits and
\* hyphens, each beginning and ending with a letter or a digit.
validHostnameRegex(fqdn) ==
    LET cs    == Chars(fqdn)
        alnum == LowerChars \cup UpperChars \cup DigitChars
    IN /\ Len(cs) >= 1
       /\ cs[1] \in alnum /\ cs[Len(cs)] \in alnum
       /\ \A i \in 1..Len(cs) :
             \/ cs[i] \in alnum
             \/ cs[i] = "-"
             \/ cs[i] = "." /\ cs[i - 1] \in alnum /\ cs[i + 1] \in alnum

ErrBadHostname == "bad hostname"

\* The options that write the candidate list and the server name.
WithMechList(list)   == [opt |-> "WithMechList", list |-> list]
WithServerFQDN(fqdn) == [opt |-> "WithServerFQDN", fqdn |-> fqdn]

\* One option applied to the client: the client afterwards and the error.
ApplyOption(c, o) ==
    IF o.opt = "WithMechList"
    THEN [client |-> IF Len(o.list) > 0 THEN [c EXCEPT !.mechList = o.list] ELSE c,
          err    |-> ErrNone]
    ELSE IF o.fqdn # ""
    THEN IF ~validHostnameRegex(o.fqdn)
         THEN [client |-> c, err |-> ErrBadHostname]
         ELSE [client |-> [c EXCEPT !.serverFQDN = o.fqdn], err |-> ErrNone]
    ELSE [client |-> c, err |-> ErrNone]

\* NewSaslClient, lines 64-68: the options in order, up to the first error.
RECURSIVE ApplyOptions(_, _)
ApplyOptions(c, opts) ==
    IF opts = << >> THEN [client |-> c, err |-> ErrNone]
    ELSE LET a == ApplyOption(c, Head(opts)) IN
         IF a.err # ErrNone THEN a ELSE ApplyOptions(a.client, Tail(opts))

\* NewSaslClient, lines 70-92, after the options: the (client, err) pairs it
\* may return.
FinishClient(a) ==
    IF a.err # ErrNone THEN {a}
    ELSE LET c     == a.client
             lists == IF Len(c.mechList) > 0 THEN { TrimRegistered(c.mechList) } ELSE Mechs
         IN { [client |-> [c EXCEPT !.mechList = l],
               err    |-> IF Len(l) = 0 THEN ErrNoMech ELSE ErrNone] : l \in lists }

\* NewSaslClient(service, opts...) for a sequence of WithMechList and
\* WithServerFQDN options.
NewSaslClientOpts(service, opts) == FinishClient(ApplyOptions(DefaultClient(service), opts))

\* NewSaslClient with the options in o applied (WithMechList, WithServerFQDN,
\* WithMinSSF, WithMaxSSF, WithNeedHTTP, WithChannelBindings, WithMaxBufSize,
\* WithSecurityProps, WithExtraProps): the (client, err) pairs it may return.
NewSaslClient(service, o) ==
    LET c == [DefaultClient(service) EXCEPT
                !.minSSF          = o.minSSF,
                !.maxSSF          = o.maxSSF,
                !.needHTTP        = o.needHTTP,
                !.channelBindings = o.channelBindings,
                !.maxBufSize      = o.maxBufSize,
                !.secProps        = o.secProps,
                !.extraProps      = o.extraProps]
    IN FinishClient(ApplyOptions(c, << WithMechList(o.mechList),
                                       WithServerFQDN(o.serverFQDN) >>))

(***************************************************************************)
(* What the last operation returned.                                       *)
(***************************************************************************)
Ret(op, in, out, err) ==
    [op |-> op, in |-> in, out |-> out, err |-> err,
     tooWeak |-> << >>, params |-> << >>, chosen |-> ""]

RetOf(op, in, o) == [Ret(op, in, o.out, o.err) EXCEPT !.tooWeak = o.tooWeak]

NoEnc == [in |-> Nil, out |-> Nil, valid |-> FALSE]

\* Initiate is called at most MaxInitiate times on one context in the model.
MaxInitiate == 2

CanStep(m, cx, inToken) ==
    (m.state = stateAuthenticating /\ inToken = Nil /\ Len(m.config.ServerFQDN) > 0)
        => cx.initiated < MaxInitiate

(***************************************************************************)
(* SaslClient operations                                                   *)
(***************************************************************************)
\* SaslClient.IsEstablished; the mock mechanisms of the tests never are.
IsEstablished(c, m) ==
    IF c.mech # "nil"
    THEN IF c.mech = "GSSAPIMech" THEN GssIsEstablished(m) ELSE FALSE
    ELSE FALSE

\* c.mech.MechProperties(): GSSAPIMech answers with its registered descriptor,
\* the server-first mechanism with its own, a mockMech with common.MechProps{}.
MechProperties(mechType) ==
    IF mechType = "GSSAPIMech" THEN Properties(mechName)
    ELSE IF mechType = "serverFirstMech" THEN ServerFirstProps
    ELSE ZeroMechProps

\* c.mech.Step for the bound mechanism; mockMech.Step returns (nil, nil).
BoundStep(c, m, cx, inToken) ==
    LET enter == Call("mech.Step", inToken, << >>, TRUE) IN
    IF c.mech = "GSSAPIMech"
    THEN { [o EXCEPT !.calls = << enter >> \o @] : o \in GssStep(m, cx, inToken) }
    ELSE { Outcome(m, cx, << enter >>, Nil, ErrNone, << >>) }

\* SaslClient.Step
ClientStep(c, m, cx, inToken) ==
    IF c.mech = "nil" THEN { Outcome(m, cx, << >>, Nil, ErrNotStarted, << >>) }
    ELSE IF IsEstablished(c, m)
    THEN { Outcome(m, cx, << >>, Nil, ErrAlreadyEstablished, << >>) }
    ELSE BoundStep(c, m, cx, inToken)

\* SaslClient.Start
Start ==
    /\ ~direct
    /\ LET c0   == [client EXCEPT !.mech = "nil"]
           disp == channelBindingDisposition(c0)
           chosenMech == ChooseMech(c0, disp.disp)
       IN IF disp.err # ErrNone
          THEN /\ client' = c0
               /\ gss' = NoGss /\ ctx' = NewContext /\ calls' = << >>
               /\ ret' = Ret("Start", Nil, Nil, disp.err)
          ELSE IF chosenMech = ""
          THEN /\ client' = c0
               /\ gss' = NoGss /\ ctx' = NewContext /\ calls' = << >>
               /\ ret' = Ret("Start", Nil, Nil, ErrNoMech)
          ELSE LET c1 == [c0 EXCEPT !.mech = NewMechType(chosenMech)]
                   m0 == IF c1.mech = "GSSAPIMech" THEN NewMech(MechConfigOf(c0)) ELSE NoGss
               IN /\ client' = c1
                  /\ IF FlagAnd(MechProperties(c1.mech).Fearures, {FeatServerFirst}) # {}
                     THEN /\ gss' = m0 /\ ctx' = NewContext /\ calls' = << >>
                          /\ ret' = [Ret("Start", Nil, Nil, ErrNone) EXCEPT !.chosen = chosenMech]
                     ELSE \E o \in ClientStep(c1, m0, NewContext, Nil) :
                          /\ gss' = o.gss /\ ctx' = o.ctx /\ calls' = o.calls
                          /\ ret' = [RetOf("Start", Nil, o) EXCEPT !.chosen = chosenMech]
    /\ enc' = NoEnc
    /\ UNCHANGED <<mechs, direct>>

\* SaslClient.Step
Step(inToken) ==
    /\ ~direct
    /\ CanStep(gss, ctx, inToken) \/ client.mech # "GSSAPIMech"
    /\ \E o \in ClientStep(client, gss, ctx, inToken) :
         /\ gss' = o.gss /\ ctx' = o.ctx /\ calls' = o.calls
         /\ ret' = RetOf("Step", inToken, o)
    /\ UNCHANGED <<mechs, client, direct, enc>>

\* SaslClient.ContextParams
ContextParams ==
    /\ ~direct
    /\ ret' = IF client.mech = "nil" THEN Ret("ContextParams", Nil, Nil, ErrNotStarted)
              ELSE IF ~IsEstablished(client, gss)
              THEN Ret("ContextParams", Nil, Nil, ErrNotEstablished)
              ELSE [Ret("ContextParams", Nil, Nil, ErrNone) EXCEPT
                      !.params = << GssContextParams(gss).SSF,
                                    GssContextParams(gss).MaxPeerMessageSize >>]
    /\ calls' = IF client.mech # "nil" /\ IsEstablished(client, gss)
                THEN << Call("mech.ContextParams", << >>, << >>, TRUE) >> ELSE << >>
    /\ UNCHANGED <<mechs, client, gss, direct, ctx, enc>>

\* ClientEncode handing every input to the mechanism, whatever the SSF.
ClientEncode_AlwaysDelegates(c, m, cx, input) ==
    IF c.mech = "nil" THEN { Outcome(m, cx, << >>, Nil, ErrNotStarted, << >>) }
    ELSE IF ~IsEstablished(c, m)
    THEN { Outcome(m, cx, << >>, Nil, ErrNotEstablished, << >>) }
    ELSE { [o EXCEPT !.calls = << Call("mech.ContextParams", << >>, << >>, TRUE),
                                  Call("mech.Encode", input, << >>, TRUE) >> \o @]
           : o \in GssEncode(m, cx, input) }

\* SaslClient.Encode; only a GSSAPIMech is ever established.
ClientEncode(c, m, cx, input) ==
    IF c.mech = "nil" THEN { Outcome(m, cx, << >>, Nil, ErrNotStarted, << >>) }
    ELSE IF ~IsEstablished(c, m)
    THEN { Outcome(m, cx, << >>, Nil, ErrNotEstablished, << >>) }
    ELSE IF GssContextParams(m).SSF = 0
    THEN { Outcome(m, cx, << Call("mech.ContextParams", << >>, << >>, TRUE) >>,
                   input, ErrNone, << >>) }
    ELSE { [o EXCEPT !.calls = << Call("mech.ContextParams", << >>, << >>, TRUE),
                                  Call("mech.Encode", input, << >>, TRUE) >> \o @]
           : o \in GssEncode(m, cx, input) }

\* ClientDecode with the established test made before the test for a bound
\* mechanism.
ClientDecode_EstablishedFirst(c, m, cx, inputToken) ==
    IF ~IsEstablished(c, m)
    THEN { Outcome(m, cx, << >>, Nil, ErrNotEstablished, << >>) }
    ELSE IF c.mech = "nil" THEN { Outcome(m, cx, << >>, Nil, ErrNotStarted, << >>) }
    ELSE IF GssContextParams(m).SSF = 0
    THEN { Outcome(m, cx, << Call("mech.ContextParams", << >>, << >>, TRUE) >>,
                   inputToken, ErrNone, << >>) }
    ELSE { [o EXCEPT !.calls = << Call("mech.ContextParams", << >>, << >>, TRUE),
                                  Call("mech.Decode", inputToken, << >>, TRUE) >> \o @]
           : o \in GssDecode(m, cx, inputToken) }

\* SaslClient.Decode
ClientDecode(c, m, cx, inputToken) ==
    IF c.mech = "nil" THEN { Outcome(m, cx, << >>, Nil, ErrNotStarted, << >>) }
    ELSE IF ~IsEstablished(c, m)
    THEN { Outcome(m, cx, << >>, Nil, ErrNotEstablished, << >>) }
    ELSE IF GssContextParams(m).SSF = 0
    THEN { Outcome(m, cx, << Call("mech.ContextParams", << >>, << >>, TRUE) >>,
                   inputToken, ErrNone, << >>) }
    ELSE { [o EXCEPT !.calls = << Call("mech.ContextParams", << >>, << >>, TRUE),
                                  Call("mech.Decode", inputToken, << >>, TRUE) >> \o @]
           : o \in GssDecode(m, cx, inputToken) }

Encode(input) ==
    /\ ~direct
    /\ \E o \in ClientEncode(client, gss, ctx, input) :
         /\ gss' = o.gss /\ ctx' = o.ctx /\ calls' = o.calls
         /\ ret' = RetOf("Encode", input, o)
         /\ enc' = IF o.err = ErrNone
                   THEN [in |-> input, out |-> o.out, valid |-> TRUE] ELSE enc
    /\ UNCHANGED <<mechs, client, direct>>

Decode(inputToken) ==
    /\ ~direct
    /\ \E o \in ClientDecode(client, gss, ctx, inputToken) :
         /\ gss' = o.gss /\ ctx' = o.ctx /\ calls' = o.calls
         /\ ret' = RetOf("Decode", inputToken, o)
    /\ UNCHANGED <<mechs, client, direct, enc>>

(***************************************************************************)
(* The GSSAPIMech used directly, as gssapi.NewMech(cfg) returns it.        *)
(***************************************************************************)
MechStep(inToken) ==
    /\ direct
    /\ CanStep(gss, ctx, inToken)
    /\ \E o \in GssStep(gss, ctx, inToken) :
         /\ gss' = o.gss /\ ctx' = o.ctx /\ calls' = o.calls
         /\ ret' = RetOf("mech.Step", inToken, o)
    /\ UNCHANGED <<mechs, client, direct, enc>>

MechEncode(input) ==
    /\ direct
    /\ \E o \in GssEncode(gss, ctx, input) :
         /\ gss' = o.gss /\ ctx' = o.ctx /\ calls' = o.calls
         /\ ret' = RetOf("mech.Encode", input, o)
         /\ enc' = IF o.err = ErrNone
                   THEN [in |-> input, out |-> o.out, valid |-> TRUE] ELSE enc
    /\ UNCHANGED <<mechs, client, direct>>

MechDecode(inputToken) ==
    /\ direct
    /\ \E o \in GssDecode(gss, ctx, inputToken) :
         /\ gss' = o.gss /\ ctx' = o.ctx /\ calls' = o.calls
         /\ ret' = RetOf("mech.Decode", inputToken, o)
    /\ UNCHANGED <<mechs, client, direct, enc>>

(***************************************************************************)
(* Inputs                                                                  *)
(***************************************************************************)
SeqsUpTo(S, n) == UNION { [1..k -> S] : k \in 0..n }

\* QOP offers a peer may send in byte 0, and buffer sizes in bytes 1-3.
PeerQops    == {0, 1, 2, 3, 4, 6, 7}
BufferBytes ==
    { << 0, 0, 0 >>, << 0, 0, 1 >>, << 0, 1, 0 >>, << 1, 0, 0 >>,
      << 255, 0, 0 >>, << 255, 255, 255 >> }

\* Unwrapped peer negotiation tokens: one of every length up to MaxTokenLen,
\* and four-byte ones over PeerQops and BufferBytes.
PeerData ==
    { [i \in 1..n |-> 1] : n \in 0..MaxTokenLen }
    \cup { << q, 1, 1, 1 >> : q \in PeerQops }
    \cup { << 7 >> \o b : b \in BufferBytes }
    \cup { << 1, 0, 0, 0 >>, << 1, 255, 255, 255 >> }

\* Tokens a caller may pass to Step: the nil sentinel, an empty token, a
\* context token, and wrapped negotiation tokens.
StepTokens ==
    {Nil, << >>, << 96 >>} \cup { WrapToken(d, FALSE) : d \in PeerData }

\* A smaller set of the same kinds.
FewStepTokens ==
    {Nil, << 96 >>}
    \cup { WrapToken(d, FALSE) :
             d \in { << 1, 1, 1 >>, << 1, 0, 1, 0 >>, << 7, 1, 1, 1 >>, << 6, 0, 0, 255 >> } }

\* Messages a caller may pass to Encode.
Plaintexts == {Nil, << 7 >>, << 1, 2 >>}

\* Messages a caller may pass to Decode: raw or wrapped, and the output of the
\* last Encode.
DecodeInputs ==
    Plaintexts \cup { WrapToken(<< 7 >>, c) : c \in BOOLEAN }
    \cup (IF enc.valid THEN {enc.out} ELSE {})

(***************************************************************************)
(* Initial states                                                          *)
(***************************************************************************)
Registries == {TestRegistry, FeatureRegistry}

\* Names a caller may put in WithMechList; "foo" is registered nowhere.
ListNames == {"GSSAPI", "MECH1", "MECH2", "MECH3", "foo"}

ServerNames == {"", "imap.example.com"}

ChannelBindings == {NoChannelBinding, ChannelBinding(FALSE), ChannelBinding(TRUE)}

ExtraPropsSamples ==
    {NoExtraProps} \cup { [k \in {"ad_compat"} |-> v] : v \in {"1", "true"} }

\* A SaslClient as NewSaslClient returns it for options o, on a connection
\* whose external layer has strength ext (the tests set extProps.ssf).
SessionInit(regs, options, exts) ==
    /\ mechs \in regs
    /\ \E o \in options, ext \in exts :
         \E r \in NewSaslClient("imap", o) :
            /\ client = [r.client EXCEPT !.extProps = [ssf |-> ext]]
            /\ ret = Ret("NewSaslClient", Nil, Nil, r.err)
    /\ gss = NoGss
    /\ direct = FALSE
    /\ ctx = NewContext
    /\ calls = << >>
    /\ enc = NoEnc

\* A GSSAPIMech as gssapi.NewMech(cfg) returns it, cfg among configs.
DirectInit(configs, wrapFailures) ==
    /\ mechs = TestRegistry
    /\ client = DefaultClient("")
    /\ \E cfg \in configs : gss = NewMech(cfg)
    /\ direct = TRUE
    /\ ctx = [NewContext EXCEPT !.wrapFailures = wrapFailures]
    /\ calls = << >>
    /\ ret = Ret("gssapi.NewMech", Nil, Nil, ErrNone)
    /\ enc = NoEnc

(***************************************************************************)
(* SpecSelect: mechanism selection, over every candidate list of up to     *)
(* MaxMechs names and the requirements that decide the filters of Start.   *)
(***************************************************************************)
SelectOptions ==
    [mechList        : SeqsUpTo(ListNames, MaxMechs),
     serverFQDN      : ServerNames,
     minSSF          : {0, 20},
     maxSSF          : {UintMax},
     needHTTP        : BOOLEAN,
     channelBindings : ChannelBindings,
     maxBufSize      : {65536},
     secProps        : { {SecNoAnonymous, SecNoPlainText}, {}, {SecNoPlainText, SecMutualAuth} },
     extraProps      : {NoExtraProps}]

SelectExternalSSFs == {0, 1, 2, 15, 25}

InitSelect == SessionInit(Registries, SelectOptions, SelectExternalSSFs)

\* The first Start of a session.  Start forgets the bound mechanism before it
\* does anything else, so a later Start on the same session does the same.
NextSelect == ret.op = "NewSaslClient" /\ Start

SpecSelect == InitSelect /\ [][NextSelect]_vars

(***************************************************************************)
(* SpecNeg: the handshake of a GSSAPIMech driven directly, over the        *)
(* configurations and peer tokens that decide the SSF negotiation.         *)
(***************************************************************************)
MechSSFs == {0, 1, 2, 56, UintMax}

MechConfig(fqdn, minSSF, maxSSF, maxBufSize, externalSSF, httpMode, extraProps) ==
    [Service        |-> "imap",
     ServerFQDN     |-> fqdn,
     MinSSF         |-> minSSF,
     MaxSSF         |-> maxSSF,
     MaxBufSize     |-> maxBufSize,
     ExternalSSF    |-> externalSSF,
     SecProps       |-> {SecNoAnonymous, SecNoPlainText},
     HTTPMode       |-> httpMode,
     ExtraProps     |-> extraProps,
     ChannelBinding |-> NoChannelBinding]

\* Every strength combination with the default buffer size; ad_compat and
\* the buffer sizes with a few strengths.
NegConfigs ==
    { MechConfig("imap.example.com", mn, mx, 65536, ext, FALSE, NoExtraProps)
        : mn \in {0, 1, 2, 56}, mx \in MechSSFs, ext \in {0, 1, 2, UintMax} }
    \cup
    { MechConfig("imap.example.com", mn, UintMax, 65536, 0, FALSE, xp)
        : mn \in {0, 2}, xp \in ExtraPropsSamples }
    \cup
    { MechConfig("imap.example.com", 0, mx, buf, 0, FALSE, NoExtraProps)
        : mx \in {1, UintMax}, buf \in {0, 65536, 65793, 16777215, 16777473} }

\* Wrap does not fail in this specification.
InitNeg == DirectInit(NegConfigs, MaxWrapFailures)

\* While the context is being established the caller passes context tokens,
\* afterwards what the peer sent as its negotiation token.
NegTokens(m) ==
    IF m.state = stateAuthenticating
    THEN {Nil, << 96 >>}
    ELSE {<< 96 >>} \cup { WrapToken(d, FALSE) : d \in PeerData }

NextNeg == \E t \in NegTokens(gss) : MechStep(t)

SpecNeg == InitNeg /\ [][NextNeg]_vars

(***************************************************************************)
(* Spec: a session driven through its whole life (Start, Step, Encode,     *)
(* Decode, ContextParams), and a GSSAPIMech driven directly.               *)
(***************************************************************************)
SessionOptions ==
    [mechList        : { << "GSSAPI" >>, << "MECH2", "GSSAPI" >>, << "MECH1" >> },
     serverFQDN      : ServerNames,
     minSSF          : {0, 2},
     maxSSF          : {1, UintMax},
     needHTTP        : {FALSE},
     channelBindings : {NoChannelBinding},
     maxBufSize      : {65536},
     secProps        : { {SecNoAnonymous, SecNoPlainText} },
     extraProps      : {NoExtraProps}]

SessionExternalSSFs == {0, 2}

MechConfigs ==
    { MechConfig(fqdn, mn, mx, 65536, ext, http, NoExtraProps)
        : fqdn \in ServerNames, mn \in {0, 2}, mx \in {1, UintMax}, ext \in {0, 2},
          http \in BOOLEAN }

Init ==
    \/ SessionInit({TestRegistry}, SessionOptions, SessionExternalSSFs)
    \/ DirectInit(MechConfigs, 0)

Next ==
    \/ Start
    \/ \E t \in FewStepTokens : Step(t)
    \/ ContextParams
    \/ \E x \in Plaintexts : Encode(x)
    \/ \E y \in DecodeInputs : Decode(y)
    \/ \E t \in FewStepTokens : MechStep(t)
    \/ \E x \in Plaintexts : MechEncode(x)
    \/ \E y \in DecodeInputs : MechDecode(y)

Spec == Init /\ [][Next]_vars

(***************************************************************************)
(* SpecRegistry: the registry filled by Register calls, as the init()      *)
(* functions of mechanism packages and the tests make them, and read by    *)
(* IsRegistered, NewMech, Properties and Mechs.                            *)
(***************************************************************************)
\* saslMechRegexp with the repetition {1,20} written as a plain +.
saslMechRegexp_NoLengthLimit(name) ==
    LET cs == Chars(name) IN
    /\ Len(cs) >= 1
    /\ \A i \in 1..Len(cs) : cs[i] \in UpperChars \cup DigitChars \cup {"-", "_"}

\* saslMechRegexp.Match: ^[A-Z0-9-_]{1,20}$
saslMechRegexp(name) ==
    LET cs == Chars(name) IN
    /\ Len(cs) >= 1 /\ Len(cs) <= 20
    /\ \A i \in 1..Len(cs) : cs[i] \in UpperChars \cup DigitChars \cup {"-", "_"}

ErrPanicBadName   == "panic: Bad mech name"
ErrPanicDuplicate == "panic: Cannot have two mechs with the same name"

\* The map after init(): no mechanism.
EmptyRegistry == [n \in {} |-> Entry("", ZeroMechProps)]

\* registry.Register
Register(name, f, props) ==
    /\ IF ~saslMechRegexp(name)
       THEN /\ mechs' = mechs
            /\ ret' = Ret("Register", << name, f, props >>, << >>, ErrPanicBadName)
       ELSE IF name \in DOMAIN mechs
       THEN /\ mechs' = mechs
            /\ ret' = Ret("Register", << name, f, props >>, << >>, ErrPanicDuplicate)
       ELSE /\ mechs' = [n \in DOMAIN mechs \cup {name} |->
                           IF n = name THEN Entry(f, props) ELSE mechs[n]]
            /\ ret' = Ret("Register", << name, f, props >>, << >>, ErrNone)
    /\ calls' = << >>
    /\ UNCHANGED <<client, gss, direct, ctx, enc>>

\* registry.IsRegistered
RegistryIsRegistered(name) ==
    /\ ret' = Ret("IsRegistered", << name >>, << IsRegistered(name) >>, ErrNone)
    /\ calls' = << >>
    /\ UNCHANGED <<mechs, client, gss, direct, ctx, enc>>

\* registry.NewMech: the type of the instance returned.
RegistryNewMech(name) ==
    /\ ret' = Ret("registry.NewMech", << name >>, << NewMechType(name) >>, ErrNone)
    /\ calls' = IF name \in DOMAIN mechs
                THEN << Call(mechs[name].factory, << >>, << >>, TRUE) >> ELSE << >>
    /\ UNCHANGED <<mechs, client, gss, direct, ctx, enc>>

\* registry.Properties
RegistryProperties(name) ==
    /\ ret' = Ret("registry.Properties", << name >>, << Properties(name) >>, ErrNone)
    /\ calls' = << >>
    /\ UNCHANGED <<mechs, client, gss, direct, ctx, enc>>

\* registry.Mechs
RegistryMechs ==
    /\ \E l \in Mechs : ret' = Ret("registry.Mechs", << >>, l, ErrNone)
    /\ calls' = << >>
    /\ UNCHANGED <<mechs, client, gss, direct, ctx, enc>>

\* Names, factories and descriptors handed to Register, and names looked up.
RegisterNames == {"GSSAPI", "TEST", "N-_9", Name20, Name21, "", "bad-mech-name", "TEST\n"}
Factories     == {"gssapi.NewMech", "newMockMech1"}
Descriptors   == {ZeroMechProps, GSSAPIProps}
LookupNames   == {"GSSAPI", "TEST", "N-_9", "foo"}

InitRegistry ==
    /\ mechs = EmptyRegistry
    /\ client = DefaultClient("")
    /\ gss = NoGss
    /\ direct = FALSE
    /\ ctx = NewContext
    /\ calls = << >>
    /\ ret = Ret("registry.init", << >>, << >>, ErrNone)
    /\ enc = NoEnc

NextRegistry ==
    \/ \E name \in RegisterNames, f \in Factories, props \in Descriptors :
          Register(name, f, props)
    \/ \E name \in LookupNames : RegistryIsRegistered(name)
    \/ \E name \in LookupNames : RegistryNewMech(name)
    \/ \E name \in LookupNames : RegistryProperties(name)
    \/ RegistryMechs

SpecRegistry == InitRegistry /\ [][NextRegistry]_vars


(***************************************************************************)
(* SpecNew: NewSaslClient called with WithMechList and WithServerFQDN      *)
(* options, on an empty registry, on one that holds only GSSAPI (the       *)
(* registry of TestNewSaslClientMechs) and on the registry of              *)
(* TestSaslClientStart.                                                    *)
(***************************************************************************)
NewSaslClientCall(opts) ==
    /\ \E r \in NewSaslClientOpts("imap", opts) :
          /\ client' = r.client
          /\ ret' = Ret("NewSaslClient", opts, Nil, r.err)
    /\ gss' = NoGss /\ ctx' = NewContext /\ calls' = << >> /\ enc' = NoEnc
    /\ UNCHANGED <<mechs, direct>>

GSSAPIRegistry == [n \in {"GSSAPI"} |-> Entry("gssapi.NewMech", GSSAPIProps)]

NewRegistries == {EmptyRegistry, GSSAPIRegistry, TestRegistry}

\* Longest option list handed to NewSaslClient.
MaxOptions == 2

NewOptions ==
    { WithMechList(l) : l \in SeqsUpTo({"GSSAPI", "MECH1", "foo"}, 2) }
    \cup { WithServerFQDN(h) : h \in {"", "imap.example.com", "bad_host", "a-.b"} }

InitNew ==
    /\ mechs \in NewRegistries
    /\ client = DefaultClient("")
    /\ gss = NoGss
    /\ direct = FALSE
    /\ ctx = NewContext
    /\ calls = << >>
    /\ ret = Ret("registry.init", << >>, << >>, ErrNone)
    /\ enc = NoEnc

\* Each call constructs a client of its own: one call per behaviour.
NextNew ==
    /\ ret.op = "registry.init"
    /\ \E opts \in SeqsUpTo(NewOptions, MaxOptions) : NewSaslClientCall(opts)

SpecNew == InitNew /\ [][NextNew]_vars

(***************************************************************************)
(* Mechanism selection, stated without the operators of the model.         *)
(***************************************************************************)
Max(a, b) == IF a >= b THEN a ELSE b

\* The no-plaintext requirement is waived.
Waived(c) == c.extProps.ssf > c.minSSF /\ c.extProps.ssf > 1

\* The required property set after the waiver.
Want(c) == IF Waived(c) THEN c.secProps \ {SecNoPlainText} ELSE c.secProps

\* The channel-binding disposition when it is defined.
Disposition(c) ==
    IF ~c.channelBindings.present THEN channelBindingDispNone
    ELSE IF Len(c.mechList) > 0 THEN channelBindingDispWant
    ELSE IF c.channelBindings.Critical THEN channelBindingDispMust
    ELSE channelBindingDispNone

\* Evaluating the disposition fails: a critical request that no candidate of
\* a non-empty list supports.
DispositionFails(c) ==
    /\ c.channelBindings.present /\ c.channelBindings.Critical
    /\ Len(c.mechList) > 0
    /\ \A i \in 1..Len(c.mechList) :
          FeatChannelBindings \notin mechs[c.mechList[i]].properties.Fearures

\* The filters other than the property filter.
PassesOthers(c, name) ==
    LET d == mechs[name].properties IN
    /\ d.MaxSSF >= Max(0, c.minSSF - c.extProps.ssf)
    /\ Disposition(c) = channelBindingDispMust => FeatChannelBindings \in d.Fearures
    /\ ~(FeatNeedServerFQDN \in d.Fearures /\ c.serverFQDN = "")
    /\ c.needHTTP => FeatSupportsHTTP \in d.Fearures

\* The candidate name passes every filter of Start.
Passes(c, name) ==
    /\ Want(c) \subseteq mechs[name].properties.SecurityProperties
    /\ PassesOthers(c, name)

\* Start selected the candidate at index i: it passes and none before it does.
FirstFit(c, i) ==
    /\ Passes(c, c.mechList[i])
    /\ \A j \in 1..(i - 1) : ~Passes(c, c.mechList[j])

NonePasses(c) == \A i \in 1..Len(c.mechList) : ~Passes(c, c.mechList[i])

\* C1 (as amended): after Start, either a mechanism was selected, and it is the
\* first name of the candidate list, in list order, that passes every filter
\* (every earlier candidate fails one), or Start failed with ErrNoMech, which
\* happens exactly when no candidate passes or the channel-binding disposition
\* itself fails (a critical request no candidate of the list supports).
C1_FirstFit ==
    ret.op = "Start" =>
        /\ ret.chosen # "" =>
              /\ ret.err # ErrNoMech
              /\ \E i \in 1..Len(client.mechList) :
                    client.mechList[i] = ret.chosen /\ FirstFit(client, i)
        /\ ret.chosen = "" => ret.err = ErrNoMech
        /\ ret.err = ErrNoMech <=> (NonePasses(client) \/ DispositionFails(client))

\* C1 as claimed: Start fails with ErrNoMech exactly when no candidate passes.
C1_NoMechExactlyWhenNonePasses ==
    ret.op = "Start" => (ret.err = ErrNoMech <=> NonePasses(client))

\* A later candidate is selected because the earlier ones fail a filter.
C1_Witness ==
    /\ ret.op = "Start" /\ ret.chosen = "MECH3"
    /\ client.mechList = << "MECH2", "GSSAPI", "MECH3" >>
    /\ client.serverFQDN = ""

\* C2: a selected mechanism has every required property, except that it may
\* lack no-plaintext, and only when externalSSF > minSSF and externalSSF > 1;
\* a candidate that is passed over, or any candidate when selection finds
\* none, fails another filter or lacks a property of the required set after
\* that waiver.  With the mechanisms of TestSaslClientStart in the order
\* [MECH2, MECH3, MECH1] and minSSF 20, externalSSF 0 selects MECH1, 15
\* selects MECH3 and 25 selects MECH2.
C2_Waiver ==
    ret.op = "Start" =>
        LET c == client
            props(n) == mechs[n].properties.SecurityProperties
            passedOver == IF ret.chosen # ""
                          THEN { i \in 1..Len(c.mechList) :
                                   \A j \in 1..i : c.mechList[j] # ret.chosen }
                          ELSE IF DispositionFails(c) THEN {}
                          ELSE 1..Len(c.mechList)
        IN /\ ret.chosen # "" =>
                 /\ (c.secProps \ props(ret.chosen)) \subseteq {SecNoPlainText}
                 /\ SecNoPlainText \in (c.secProps \ props(ret.chosen))
                       => (c.extProps.ssf > c.minSSF /\ c.extProps.ssf > 1)
           /\ \A i \in passedOver :
                 PassesOthers(c, c.mechList[i])
                    => ~((c.secProps \ (IF c.extProps.ssf > c.minSSF /\ c.extProps.ssf > 1
                                        THEN {SecNoPlainText} ELSE {}))
                            \subseteq props(c.mechList[i]))
           /\ ( /\ mechs = TestRegistry
                /\ c.mechList = << "MECH2", "MECH3", "MECH1" >>
                /\ c.minSSF = 20
                /\ c.secProps = {SecNoAnonymous, SecNoPlainText}
                /\ ~c.needHTTP /\ ~c.channelBindings.present )
              => /\ c.extProps.ssf = 0  => ret.chosen = "MECH1"
                 /\ c.extProps.ssf = 15 => ret.chosen = "MECH3"
                 /\ c.extProps.ssf = 25 => ret.chosen = "MECH2"

\* The waiver decides: MECH2 lacks no-plaintext and is selected.
C2_Witness ==
    /\ ret.op = "Start" /\ ret.chosen = "MECH2"
    /\ mechs = TestRegistry
    /\ client.mechList = << "MECH2", "MECH3", "MECH1" >>
    /\ client.minSSF = 20 /\ client.extProps.ssf = 25
    /\ SecNoPlainText \in client.secProps

(***************************************************************************)
(* The GSSAPI negotiation, stated on what a call did: the calls it made on *)
(* the external context and the values it returned.                        *)
(***************************************************************************)
StepOps == {"Start", "Step", "mech.Step"}
CtxCalls == {"ctx.Initiate", "ctx.Continue", "ctx.Unwrap", "ctx.SSF",
             "ctx.WrapSizeLimit", "ctx.Wrap"}

Made(cs, f) == \E i \in DOMAIN cs : cs[i].f = f
TheCall(cs, f) == cs[CHOOSE i \in DOMAIN cs : cs[i].f = f]

\* q has the bit of layer l.
Has(q, l) == (q \div l) % 2 = 1

\* The last call was a step of the capability exchange that unwrapped data.
Exchanged(r, cs) ==
    r.op \in StepOps /\ Made(cs, "ctx.Unwrap") /\ TheCall(cs, "ctx.Unwrap").ok

\* C3: over Step, Encode and Decode calls the state of a GSSAPI mechanism
\* only stays or moves forward: Authenticating to SSFCapability to
\* Authenticated without HTTP mode, Authenticating to Authenticated in HTTP
\* mode; it never goes back, is never SSFCapability in HTTP mode and never
\* skips SSFCapability without HTTP mode.
C3_Monotonic ==
    [][ /\ (gss' # NoGss /\ gss'.config.HTTPMode) => gss'.state # stateSSFCap
        /\ (gss # NoGss /\ ret'.op # "Start") =>
              /\ gss' # NoGss
              /\ \/ gss'.state = gss.state
                 \/ /\ gss.state = stateAuthenticating
                    /\ gss'.state = IF gss.config.HTTPMode
                                    THEN stateAuthenticated ELSE stateSSFCap
                 \/ /\ gss.state = stateSSFCap /\ ~gss.config.HTTPMode
                    /\ gss'.state = stateAuthenticated ]_vars

\* An HTTP-mode mechanism is established and has been used to decode.
C3_Witness ==
    /\ gss # NoGss /\ gss.config.HTTPMode
    /\ gss.state = stateAuthenticated /\ ret.op = "mech.Decode"

\* C4: once a GSSAPI mechanism is Authenticated, every Step, on the session
\* or on the mechanism, with any token or none, fails with
\* ErrAlreadyEstablished, returns no token, calls nothing on the external
\* context and leaves the mechanism and its context as they were.
C4_Terminal ==
    [][ (gss.state = stateAuthenticated /\ ret'.op \in {"Step", "mech.Step"}) =>
           /\ ret'.err = ErrAlreadyEstablished
           /\ ret'.out = Nil
           /\ \A i \in DOMAIN calls' : calls'[i].f \notin CtxCalls
           /\ gss' = gss /\ ctx' = ctx ]_vars

\* A session Step with no token was refused on an established mechanism
\* that negotiated a security layer.
C4_Witness ==
    /\ ret.op = "Step" /\ ret.in = Nil /\ ret.err = ErrAlreadyEstablished
    /\ gss.state = stateAuthenticated /\ gss.ssf > 0

\* C5 as claimed: in a capability step that unwrapped four bytes, ErrTooWeak
\* is raised if and only if channelSSF + externalSSF < minSSF as integers; the
\* error carries (channelSSF, externalSSF, minSSF) and the state stays
\* SSFCapability.
C5_TooWeakIffSumBelowMin ==
    (Exchanged(ret, calls) /\ Made(calls, "ctx.SSF")) =>
        LET channelSSF == TheCall(calls, "ctx.SSF").res[1] IN
        /\ ret.err = ErrTooWeak
              <=> channelSSF + gss.config.ExternalSSF < gss.config.MinSSF
        /\ ret.err = ErrTooWeak =>
              /\ ret.tooWeak = << channelSSF, gss.config.ExternalSSF, gss.config.MinSSF >>
              /\ gss.state = stateSSFCap
              /\ ~Made(calls, "ctx.Wrap")

\* C6: a capability step that passes the strength check picks the QOP by
\* strict priority: confidentiality (ssf = channelSSF) iff both sides have it,
\* allowed >= channelSSF and need <= channelSSF; else integrity (ssf = 1) iff
\* both sides have it, allowed >= 1 and need <= 2; else none (ssf = 0) iff both
\* sides have it and need <= 0; else the step fails with the no-security-layer
\* error.  allowed = max(0, maxSSF - externalSSF), need = max(0, minSSF -
\* externalSSF).  A peer offering only none and integrity never gets
\* confidentiality.
C6_QopPriority ==
    (Exchanged(ret, calls) /\ Made(calls, "ctx.SSF") /\ ret.err # ErrTooWeak) =>
        LET cfg        == gss.config
            channelSSF == TheCall(calls, "ctx.SSF").res[1]
            offer      == TheCall(calls, "ctx.Unwrap").res[1]
            allowed    == Max(0, cfg.MaxSSF - cfg.ExternalSSF)
            need       == Max(0, cfg.MinSSF - cfg.ExternalSSF)
            both(l)    == Has(gss.qop, l) /\ Has(offer, l)
            chosen     == IF Made(calls, "ctx.Wrap")
                          THEN TheCall(calls, "ctx.Wrap").arg[2] ELSE 0
        IN /\ IF both(4) /\ allowed >= channelSSF /\ need <= channelSSF
              THEN chosen \in {4, 6} /\ gss.ssf = channelSSF
              ELSE IF both(2) /\ allowed >= 1 /\ need <= 2
              THEN chosen = 2 /\ gss.ssf = 1
              ELSE IF both(1) /\ need <= 0
              THEN chosen = 1 /\ gss.ssf = 0
              ELSE chosen = 0 /\ ret.err = ErrNoSecurityLayer
           /\ offer \in {1, 2, 3} => chosen \notin {4, 6}

\* Both sides have confidentiality but the channel is stronger than allowed:
\* integrity is chosen.
C6_Witness ==
    /\ Exchanged(ret, calls) /\ Made(calls, "ctx.SSF") /\ ret.err = ErrNone
    /\ TheCall(calls, "ctx.SSF").res[1] = 56
    /\ gss.qop = 7 /\ TheCall(calls, "ctx.Unwrap").res[1] = 7
    /\ gss.config.MaxSSF = 2 /\ gss.config.ExternalSSF = 0
    /\ gss.ssf = 1 /\ gss.state = stateAuthenticated

\* C7: the reply of a capability step is four bytes, wrapped without
\* confidentiality: byte 0 is the chosen QOP (1, 2, 4, or 6 for
\* confidentiality with a truthy ad_compat); bytes 1-3 are the big-endian
\* min(MaxBufSize, 0xFFFFFF) when the QOP is above none and zero otherwise
\* (QOP 4 with size 65793 gives 4, 1, 1, 1).
C7_Reply ==
    (Exchanged(ret, calls) /\ Made(calls, "ctx.Wrap")) =>
        LET w     == TheCall(calls, "ctx.Wrap")
            reply == Tail(w.arg)
            cfg   == gss.config
            ad    == /\ "ad_compat" \in DOMAIN cfg.ExtraProps
                     /\ cfg.ExtraProps["ad_compat"] \in {"1", "y", "on", "t"}
            size  == IF cfg.MaxBufSize < 16777215 THEN cfg.MaxBufSize ELSE 16777215
        IN /\ Len(reply) = 4
           /\ w.arg[1] = 0
           /\ reply[1] \in {1, 2, 4, 6}
           /\ reply[1] = 6 => ad
           /\ reply[1] = 4 => ~ad
           /\ reply[1] = 1 => gss.ssf = 0
           /\ reply[1] = 2 => gss.ssf = 1
           /\ \A i \in 2..4 : reply[i] \in 0..255
           /\ IF reply[1] > 1
              THEN 65536 * reply[2] + 256 * reply[3] + reply[4] = size
              ELSE reply[2] = 0 /\ reply[3] = 0 /\ reply[4] = 0
           /\ (reply[1] = 4 /\ cfg.MaxBufSize = 65793) => reply = << 4, 1, 1, 1 >>
           /\ ret.err = ErrNone => (ret.out = w.res /\ w.res = << 1 >> \o reply)

\* Confidentiality is answered with the size 65793.
C7_Witness ==
    /\ Exchanged(ret, calls) /\ Made(calls, "ctx.Wrap") /\ ret.err = ErrNone
    /\ Tail(TheCall(calls, "ctx.Wrap").arg) = << 4, 1, 1, 1 >>
    /\ gss.config.MaxBufSize = 65793

\* C8: in the capability step an unwrapped token that is not four bytes long
\* fails with the bad-token error and changes nothing of the mechanism; for
\* a four-byte token b0 b1 b2 b3 the offered QOP is b0 and the peer buffer
\* size is 65536*b1 + 256*b2 + b3, whatever b0 is.
C8_Token ==
    [][ (gss.state = stateSSFCap /\ Exchanged(ret', calls')) =>
          LET data == TheCall(calls', "ctx.Unwrap").res IN
          IF Len(data) # 4
          THEN /\ ret'.err = ErrBadToken /\ ret'.out = Nil
               /\ gss' = gss
               /\ ~Made(calls', "ctx.SSF") /\ ~Made(calls', "ctx.Wrap")
          ELSE /\ ret'.err # ErrBadToken
               /\ Made(calls', "ctx.Wrap") =>
                     LET peer   == 65536 * data[2] + 256 * data[3] + data[4]
                         chosen == TheCall(calls', "ctx.Wrap").arg[2]
                     IN /\ IF gss'.ssf = 0
                           THEN gss'.maxOutputBufferSz = peer
                           ELSE /\ Made(calls', "ctx.WrapSizeLimit")
                                /\ TheCall(calls', "ctx.WrapSizeLimit").arg[1] = peer
                        /\ \E l \in {1, 2, 4} : Has(chosen, l) /\ Has(data[1], l) ]_vars

\* The largest peer buffer size was decoded from a token offering every layer.
C8_Witness ==
    /\ Exchanged(ret, calls) /\ ret.err = ErrNone
    /\ TheCall(calls, "ctx.Unwrap").res = << 7, 255, 255, 255 >>
    /\ gss.ssf = 0 /\ gss.maxOutputBufferSz = 16777215

\* C9: on an established session Encode and Decode return their input
\* unchanged, without error and without calling the mechanism's Encode or
\* Decode, when the negotiated SSF is 0, and hand the input to the mechanism
\* when it is positive; decoding what Encode returned gives back the bytes
\* that were encoded.  A mechanism in HTTP mode never has a positive SSF.
C9_PassThrough ==
    /\ (gss # NoGss /\ gss.config.HTTPMode) => GssContextParams(gss).SSF = 0
    /\ (ret.op \in {"Encode", "Decode"} /\ ret.err \notin {ErrNotStarted, ErrNotEstablished}) =>
        LET toMech == IF ret.op = "Encode" THEN "mech.Encode" ELSE "mech.Decode" IN
        /\ gss.state = stateAuthenticated
        /\ IF gss.ssf = 0
           THEN /\ ret.out = ret.in /\ ret.err = ErrNone
                /\ ~Made(calls, "mech.Encode") /\ ~Made(calls, "mech.Decode")
                /\ \A i \in DOMAIN calls : calls[i].f \notin CtxCalls
           ELSE /\ Made(calls, toMech)
                /\ TheCall(calls, toMech).arg = ret.in
        /\ (ret.op = "Decode" /\ enc.valid /\ ret.in = enc.out /\ ret.err = ErrNone)
              => Bytes(ret.out) = Bytes(enc.in)

\* A message went through Encode and Decode of a session without a security
\* layer.
C9_Witness ==
    /\ ret.op = "Decode" /\ ret.err = ErrNone
    /\ gss.state = stateAuthenticated /\ gss.ssf = 0
    /\ enc.valid /\ enc.in = << 1, 2 >> /\ ret.in = enc.out /\ ret.out = << 1, 2 >>

\* C10 as claimed: the mechanism's own Encode and Decode fail, without
\* calling wrap or unwrap, whenever the mechanism is not Authenticated or its
\* ssf is 0; when Encode succeeds it asks for confidentiality iff ssf > 1.
C10_ValidOnlyAuthenticated ==
    ret.op \in {"mech.Encode", "mech.Decode"} =>
        /\ (gss.state # stateAuthenticated \/ gss.ssf = 0) =>
              /\ ret.err # ErrNone
              /\ \A i \in DOMAIN calls : calls[i].f \notin CtxCalls
        /\ (ret.op = "mech.Encode" /\ ret.err = ErrNone) =>
              (TheCall(calls, "ctx.Wrap").arg[1] = 1 <=> gss.ssf > 1)

\* The errors a handshake step may end with.
HandshakeErrors ==
    {ErrMissingServerName, ErrGssInitiate, ErrGssContinue, ErrGssUnwrap,
     ErrBadToken, ErrTooWeak, ErrNoSecurityLayer, ErrGssWrap}

\* C11 as claimed, for the Step that follows a failed one: once a Step of a
\* session has returned a handshake error, the next Step on that session does
\* not succeed and the session does not become established.
C11_ErrorsTerminal ==
    [][ ( /\ ret.op = "Step" /\ ret.err \in HandshakeErrors
          /\ ret'.op = "Step" )
        => (ret'.err # ErrNone /\ ~IsEstablished(client', gss')) ]_vars

\* C12: on a session with no mechanism bound Step, Encode, Decode and
\* ContextParams fail with ErrNotStarted; with a mechanism bound that is not
\* established Encode, Decode and ContextParams fail with ErrNotEstablished;
\* in both cases nothing is returned, the mechanism is not called and nothing
\* changes.  ContextParams of an established session returns the negotiated
\* SSF and max peer message size, without error.
C12_Misuse ==
    [][ ret'.op \in {"Step", "Encode", "Decode", "ContextParams"} =>
          LET established == client.mech = "GSSAPIMech" /\ gss.state = stateAuthenticated
              refused(e)  == /\ ret'.err = e /\ ret'.out = Nil /\ ret'.params = << >>
                             /\ calls' = << >>
                             /\ gss' = gss /\ ctx' = ctx /\ client' = client
          IN IF client.mech = "nil" THEN refused(ErrNotStarted)
             ELSE IF ret'.op = "Step" THEN TRUE
             ELSE IF ~established THEN refused(ErrNotEstablished)
             ELSE /\ ret'.err \notin {ErrNotStarted, ErrNotEstablished}
                  /\ ret'.op = "ContextParams" =>
                        /\ ret'.err = ErrNone
                        /\ ret'.params = << gss.ssf, gss.maxOutputBufferSz >> ]_vars

\* Encode was refused on a session whose mechanism is still negotiating.
C12_Witness ==
    /\ ret.op = "Encode" /\ ret.err = ErrNotEstablished
    /\ client.mech = "GSSAPIMech" /\ gss.state = stateSSFCap

(***************************************************************************)
(* The registry, stated on what its functions returned.                    *)
(***************************************************************************)
\* name matches ^[A-Z0-9_-]{1,20}$.
WellFormedName(name) ==
    /\ Len(name) \in 1..20
    /\ \A i \in 1..Len(name) :
          \/ Chars(name)[i] \in UpperChars
          \/ Chars(name)[i] \in DigitChars
          \/ Chars(name)[i] = "_" \/ Chars(name)[i] = "-"

\* C14: Register of a well-formed name that is not registered succeeds and
\* adds exactly that entry; Register of a registered name, or of a name that
\* does not match ^[A-Z0-9_-]{1,20}$, panics and leaves the registry as it
\* was; no call removes or changes an entry; IsRegistered tells whether the
\* name has been registered; every registered name is well formed.
C14_Register ==
    [][ /\ ret'.op = "Register" =>
             LET name == ret'.in[1] IN
             IF WellFormedName(name) /\ name \notin DOMAIN mechs
             THEN /\ ret'.err = ErrNone
                  /\ DOMAIN mechs' = DOMAIN mechs \cup {name}
                  /\ mechs'[name] = [factory |-> ret'.in[2], properties |-> ret'.in[3]]
             ELSE /\ ret'.err = IF WellFormedName(name)
                                THEN ErrPanicDuplicate ELSE ErrPanicBadName
                  /\ mechs' = mechs
        /\ \A n \in DOMAIN mechs : n \in DOMAIN mechs' /\ mechs'[n] = mechs[n]
        /\ \A n \in DOMAIN mechs' : WellFormedName(n)
        /\ ret'.op = "IsRegistered" =>
              ret'.out = << ret'.in[1] \in DOMAIN mechs' >> ]_vars

\* A second Register of the longest well-formed name panicked, four names
\* being registered.
C14_Witness ==
    /\ ret.op = "Register" /\ ret.err = ErrPanicDuplicate
    /\ ret.in[1] = Name20
    /\ DOMAIN mechs = {"GSSAPI", "TEST", "N-_9", Name20}

\* C15 as claimed, for two calls in a row: Mechs() returns the same sequence
\* each time it is called on the same registry contents.
C15_MechsDeterministic ==
    [][ (ret.op = "registry.Mechs" /\ ret'.op = "registry.Mechs" /\ mechs' = mechs)
           => ret'.out = ret.out ]_vars

\* C16: NewMech(name, cfg) returns what the factory registered under that
\* name builds, calling no other factory, and nil for an unregistered name;
\* Properties(name) returns the descriptor registered under that name and the
\* zero descriptor for an unregistered name; neither changes the registry.
C16_Lookups ==
    [][ /\ ret'.op = "registry.NewMech" =>
             LET name == ret'.in[1] IN
             /\ mechs' = mechs
             /\ IF name \in DOMAIN mechs
                THEN /\ Len(calls') = 1 /\ calls'[1].f = mechs[name].factory
                     /\ mechs[name].factory = "gssapi.NewMech" => ret'.out = << "GSSAPIMech" >>
                     /\ mechs[name].factory = "newMockMech1" => ret'.out = << "mockMech1" >>
                ELSE calls' = << >> /\ ret'.out = << "nil" >>
        /\ ret'.op = "registry.Properties" =>
             LET name == ret'.in[1] IN
             /\ mechs' = mechs
             /\ ret'.out = << IF name \in DOMAIN mechs THEN mechs[name].properties
                              ELSE [MaxSSF |-> 0, SecurityProperties |-> {}, Fearures |-> {}] >>
      ]_vars

\* NewMech built a mock mechanism for TEST while GSSAPI is registered with
\* the GSSAPI factory.
C16_Witness ==
    /\ ret.op = "registry.NewMech" /\ ret.in = << "TEST" >> /\ ret.out = << "mockMech1" >>
    /\ "GSSAPI" \in DOMAIN mechs /\ mechs["GSSAPI"].factory = "gssapi.NewMech"

(***************************************************************************)
(* NewSaslClient, stated on the options it was given.                      *)
(***************************************************************************)
\* The list the options supply: that of the last WithMechList with a
\* non-empty list, << >> when there is none.
RECURSIVE Supplied(_)
Supplied(opts) ==
    IF opts = << >> THEN << >>
    ELSE LET o == opts[Len(opts)] IN
         IF o.opt = "WithMechList" /\ o.list # << >> THEN o.list
         ELSE Supplied(SubSeq(opts, 1, Len(opts) - 1))

\* An option of opts is refused: a server name that is no host name.
Refused(opts) ==
    \E i \in 1..Len(opts) :
       /\ opts[i].opt = "WithServerFQDN"
       /\ opts[i].fqdn \in {"bad_host", "a-.b"}

\* l is list without the names that are not registered.
IsTrimmed(l, list) ==
    LET Registered(n) == n \in DOMAIN mechs IN l = SelectSeq(list, Registered)

\* l holds every registered name once.
IsAllRegistered(l) ==
    /\ Len(l) = Cardinality(DOMAIN mechs)
    /\ { l[i] : i \in 1..Len(l) } = DOMAIN mechs

\* C13: NewSaslClient with a non-empty supplied list gives the candidate list
\* that is the supplied list without its unregistered names, in the same
\* order, and with no supplied list it gives all the registered names; the
\* call fails, with ErrNoMech, exactly when that candidate list is empty.
\* This is the outcome of every call whose options are accepted; a call with
\* a server name that is no host name ends with that option's error.
C13_Trimmed ==
    ret.op = "NewSaslClient" =>
        IF Refused(ret.in) THEN ret.err = ErrBadHostname
        ELSE /\ IF Supplied(ret.in) # << >>
                THEN IsTrimmed(client.mechList, Supplied(ret.in))
                ELSE IsAllRegistered(client.mechList)
             /\ ret.err = IF client.mechList = << >> THEN ErrNoMech ELSE ErrNone

\* The unregistered name was removed from between two registered ones.
C13_Witness ==
    /\ ret.op = "NewSaslClient" /\ ret.err = ErrNone
    /\ ret.in = << WithMechList(<< "MECH1", "foo" >>), WithMechList(<< "foo", "GSSAPI" >>) >>
    /\ client.mechList = << "GSSAPI" >>
    /\ mechs = TestRegistry

(***************************************************************************)
(* The channel-binding disposition of Start.                               *)
(***************************************************************************)
\* A candidate of the list has the channel-binding feature.
SomeCandidateBinds(c) ==
    \E i \in 1..Len(c.mechList) :
       FeatChannelBindings \in mechs[c.mechList[i]].properties.Fearures

\* C17: the disposition Start computes for the session is 'none' without a
\* channel-binding request; with a request and a non-empty candidate list it
\* is 'want', unless the request is critical and no candidate has the
\* channel-binding feature, and then Start fails with ErrNoMech before it
\* looks at any candidate; with a request and an empty list it is 'must' when
\* critical and 'none' otherwise.  With a request that is not critical the
\* disposition never fails and Start fails with ErrNoMech only when no
\* candidate passes the filters.
C17_Disposition ==
    ret.op = "Start" =>
        LET d  == channelBindingDisposition(client)
            cb == client.channelBindings
            n  == Len(client.mechList)
            is(disp) == d = [disp |-> disp, err |-> ErrNone]
        IN /\ ~cb.present => is(channelBindingDispNone)
           /\ (cb.present /\ n > 0) =>
                 IF cb.Critical /\ ~SomeCandidateBinds(client)
                 THEN /\ d.err = ErrNoMech
                      /\ ret.err = ErrNoMech /\ ret.chosen = ""
                      /\ client.mech = "nil" /\ calls = << >>
                 ELSE is(channelBindingDispWant)
           /\ (cb.present /\ n = 0) =>
                 is(IF cb.Critical THEN channelBindingDispMust ELSE channelBindingDispNone)
           /\ ~(cb.present /\ cb.Critical) =>
                 /\ d.err = ErrNone
                 /\ ret.err = ErrNoMech <=> NonePasses(client)

\* A critical request fails a Start that has a candidate passing every filter.
C17_Witness ==
    /\ ret.op = "Start" /\ ret.err = ErrNoMech
    /\ client.channelBindings.present /\ client.channelBindings.Critical
    /\ Len(client.mechList) = 2
    /\ ~SomeCandidateBinds(client)
    /\ Passes(client, client.mechList[1])

(***************************************************************************)
(* What Start does with the mechanism it selected.                         *)
(***************************************************************************)
\* The number of calls of f in cs.
Count(cs, f) == Cardinality({ i \in DOMAIN cs : cs[i].f = f })

\* C18: a Start that selected a mechanism binds the instance built by the
\* factory registered under the chosen name and changes nothing else of the
\* session; a GSSAPI instance holds the session's service, server name,
\* minSSF, maxSSF, buffer size, externalSSF, security properties, HTTP mode,
\* extra properties and channel binding.  When the chosen mechanism's
\* descriptor has the server-first feature no step is made, the instance is
\* as constructed and Start returns no token and no error; otherwise
\* exactly one step is made on the new instance, with the nil token, and
\* Start returns what that step returns.
C18_BindAndFirstStep ==
    [][ (ret'.op = "Start" /\ ret'.chosen # "") =>
          LET d     == mechs[ret'.chosen].properties
              cfg   == [Service        |-> client.service,
                        ServerFQDN     |-> client.serverFQDN,
                        MinSSF         |-> client.minSSF,
                        MaxSSF         |-> client.maxSSF,
                        MaxBufSize     |-> client.maxBufSize,
                        ExternalSSF    |-> client.extProps.ssf,
                        SecProps       |-> client.secProps,
                        HTTPMode       |-> client.needHTTP,
                        ExtraProps     |-> client.extraProps,
                        ChannelBinding |-> client.channelBindings]
              fresh == [config |-> cfg, qop |-> 0, ssf |-> 0,
                        state |-> stateAuthenticating, maxOutputBufferSz |-> 0]
              gssapi == mechs[ret'.chosen].factory = "gssapi.NewMech"
          IN /\ client'.mech # "nil"
             /\ client'.mech = FactoryMech(mechs[ret'.chosen].factory)
             /\ client' = [client EXCEPT !.mech = client'.mech]
             /\ gssapi => gss'.config = cfg
             /\ IF FeatServerFirst \in d.Fearures
                THEN /\ calls' = << >>
                     /\ ret'.out = Nil /\ ret'.err = ErrNone
                     /\ gssapi => gss' = fresh
                ELSE /\ Count(calls', "mech.Step") = 1
                     /\ calls'[1].f = "mech.Step" /\ calls'[1].arg = Nil
                     /\ IF gssapi
                        THEN \E o \in GssStep(fresh, NewContext, Nil) :
                                /\ gss' = o.gss /\ ctx' = o.ctx
                                /\ ret'.out = o.out /\ ret'.err = o.err
                        ELSE ret'.out = Nil /\ ret'.err = ErrNone ]_vars

\* Start selected the server-first mechanism and made no step.
C18_Witness ==
    /\ ret.op = "Start" /\ ret.chosen = "MECH3" /\ ret.err = ErrNone
    /\ FeatServerFirst \in mechs["MECH3"].properties.Fearures
    /\ client.mech = "serverFirstMech"
    /\ client.mechList = << "GSSAPI", "MECH3" >>
    /\ calls = << >>

(***************************************************************************)
(* The establishment of the external context in stepAuthenticating.        *)
(***************************************************************************)
\* The QOP set the flags of an established context stand for.
QopOfFlags(flags) ==
    IF ContextFlagInteg \notin flags THEN 1
    ELSE IF ContextFlagConf \notin flags THEN 1 + 2
    ELSE 1 + 2 + 4

\* C19: in every state where the mechanism is in SSFCapability its local QOP
\* set is the one the flags of the established context stand for: {none}
\* without integrity, {none, integrity} with integrity and without
\* confidentiality, all three with both.
C19_QopFromEstablishedFlags ==
    gss.state = stateSSFCap => gss.qop = QopOfFlags(ctx.flags)
\* C20: a step that calls Continue on a mechanism in Authenticating and
\* finds the context established moves, in HTTP mode, to Authenticated and
\* returns no output token; without HTTP mode it moves to SSFCapability and
\* returns Continue's token, or an empty token that is not nil when Continue
\* gave none.  A step that does not find the context established leaves the
\* state Authenticating and returns Continue's token as it is.
C20_Establishment ==
    [][ (ret'.op \in {"Step", "mech.Step"} /\ gss.state = stateAuthenticating
         /\ Made(calls', "ctx.Continue")) =>
          LET token == TheCall(calls', "ctx.Continue").res IN
          IF gss'.state # stateAuthenticating
          THEN /\ ret'.err = ErrNone
               /\ IF gss.config.HTTPMode
                  THEN gss'.state = stateAuthenticated /\ ret'.out = Nil
                  ELSE /\ gss'.state = stateSSFCap
                       /\ ret'.out = IF token = Nil THEN << >> ELSE token
          ELSE ret'.out = token ]_vars

\* The part of C20 that the code keeps: the same, with the token of HTTP mode
\* being Continue's token as it is.
EstablishmentAsCoded ==
    [][ (ret'.op \in {"Step", "mech.Step"} /\ gss.state = stateAuthenticating
         /\ Made(calls', "ctx.Continue")) =>
          LET token == TheCall(calls', "ctx.Continue").res IN
          IF gss'.state # stateAuthenticating
          THEN /\ ret'.err = ErrNone
               /\ IF gss.config.HTTPMode
                  THEN gss'.state = stateAuthenticated /\ ret'.out = token
                  ELSE /\ gss'.state = stateSSFCap
                       /\ ret'.out = IF token = Nil THEN << >> ELSE token
          ELSE ret'.out = token ]_vars

(***************************************************************************)
(* The first step of a GSSAPI mechanism.                                   *)
(***************************************************************************)
\* C21: a step with the nil token on a mechanism in Authenticating fails with
\* the missing-server-name error when no server name is configured, without
\* a call to the context and with the mechanism and the context unchanged;
\* otherwise it calls Initiate for the principal service/hostname, with
\* mutual authentication and sequencing, with integrity exactly when
\* MaxSSF > ExternalSSF and with confidentiality exactly when
\* MaxSSF - ExternalSSF > 1, and with no other flag.
C21_FirstStep ==
    [][ (ret'.op \in {"Step", "mech.Step"} /\ gss.state = stateAuthenticating
         /\ ret'.in = Nil) =>
          LET cfg == gss.config IN
          IF cfg.ServerFQDN = ""
          THEN /\ ret'.err = ErrMissingServerName /\ ret'.out = Nil
               /\ ~Made(calls', "ctx.Initiate") /\ ~Made(calls', "ctx.Continue")
               /\ gss' = gss /\ ctx' = ctx
          ELSE /\ calls'[IF ret'.op = "Step" THEN 2 ELSE 1].f = "ctx.Initiate"
               /\ ctx'.initiated = ctx.initiated + 1
               /\ ctx'.principal = << cfg.Service, "/", cfg.ServerFQDN >>
               /\ ctx'.requested \subseteq {ContextFlagMutual, ContextFlagSequence,
                                            ContextFlagInteg, ContextFlagConf}
               /\ ContextFlagMutual \in ctx'.requested
               /\ ContextFlagSequence \in ctx'.requested
               /\ ContextFlagInteg \in ctx'.requested <=> cfg.MaxSSF > cfg.ExternalSSF
               /\ ContextFlagConf \in ctx'.requested <=> cfg.MaxSSF - cfg.ExternalSSF > 1 ]_vars

\* Integrity was requested without confidentiality: MaxSSF is ExternalSSF + 1.
C21_Witness ==
    /\ ret.op = "mech.Step" /\ ret.in = Nil /\ ret.err = ErrNone
    /\ gss.config.MaxSSF = 1 /\ gss.config.ExternalSSF = 0
    /\ ctx.initiated = 1
    /\ ctx.requested = {ContextFlagMutual, ContextFlagSequence, ContextFlagInteg}

(***************************************************************************)
(* The outcome of the capability exchange.                                 *)
(***************************************************************************)
\* C22: after a successful step of the capability exchange the recorded peer
\* message size is the 24-bit size of the peer's token when the negotiated
\* ssf is 0, and what the context's WrapSizeLimit returned for that size,
\* with confidentiality exactly when ssf > 1, when ssf > 0; ContextParams of
\* the established session returns the recorded ssf and size.
C22_PeerMessageSize ==
    [][ /\ (gss.state = stateSSFCap /\ Exchanged(ret', calls') /\ ret'.err = ErrNone) =>
             LET data == TheCall(calls', "ctx.Unwrap").res
                 peer == 65536 * data[2] + 256 * data[3] + data[4]
             IN IF gss'.ssf = 0
                THEN /\ gss'.maxOutputBufferSz = peer
                     /\ ~Made(calls', "ctx.WrapSizeLimit")
                ELSE /\ Count(calls', "ctx.WrapSizeLimit") = 1
                     /\ TheCall(calls', "ctx.WrapSizeLimit").arg
                           = << peer, IF gss'.ssf > 1 THEN 1 ELSE 0 >>
                     /\ gss'.maxOutputBufferSz = TheCall(calls', "ctx.WrapSizeLimit").res[1]
        /\ (ret'.op = "ContextParams" /\ ret'.err = ErrNone) =>
             /\ ret'.params = << gss.ssf, gss.maxOutputBufferSz >>
             /\ gss' = gss
      ]_vars

\* The session negotiated confidentiality of strength 56 with a peer whose
\* buffer holds 65793 bytes, and reports the limit for sealed messages.
C22_Witness ==
    /\ ret.op = "ContextParams" /\ ret.err = ErrNone
    /\ ret.params = << 56, 65749 >>
    /\ gss.ssf = 56 /\ gss.maxOutputBufferSz = 65749

(***************************************************************************)
(* Critical channel bindings.                                              *)
(***************************************************************************)
\* C23: when the session carries a critical channel-binding request and
\* Start succeeds, the mechanism Start selected has the channel-binding
\* feature.
C23_CriticalBindingHonoured ==
    (/\ ret.op = "Start" /\ ret.err = ErrNone /\ ret.chosen # ""
     /\ client.channelBindings.present /\ client.channelBindings.Critical)
        => FeatChannelBindings \in mechs[ret.chosen].properties.Fearures
(***************************************************************************)
(* The strength negotiated by the capability exchange.                     *)
(***************************************************************************)
\* The last call was the step that completed the capability exchange.
Negotiated(r, cs, m) ==
    Exchanged(r, cs) /\ r.err = ErrNone /\ m.state = stateAuthenticated

\* The QOP byte of the reply that was wrapped.
ReplyQop(cs) == TheCall(cs, "ctx.Wrap").arg[2]

\* C24: when the mechanism reaches Authenticated through the capability
\* exchange the negotiated ssf is at least max(0, MinSSF - ExternalSSF).
C24_MeetsFloor ==
    Negotiated(ret, calls, gss)
        => gss.ssf >= Max(0, gss.config.MinSSF - gss.config.ExternalSSF)
\* C25: when the mechanism reaches Authenticated through the capability
\* exchange the negotiated ssf is at most max(0, MaxSSF - ExternalSSF), and
\* when MaxSSF <= ExternalSSF the QOP negotiated is none, with ssf 0.
C25_WithinAllowed ==
    Negotiated(ret, calls, gss) =>
        /\ gss.ssf <= Max(0, gss.config.MaxSSF - gss.config.ExternalSSF)
        /\ gss.config.MaxSSF <= gss.config.ExternalSSF =>
              gss.ssf = 0 /\ ReplyQop(calls) = 1

\* The bound of C25 alone.
SsfWithinAllowed ==
    Negotiated(ret, calls, gss) =>
        gss.ssf <= Max(0, gss.config.MaxSSF - gss.config.ExternalSSF)
(***************************************************************************)
(* The QOP byte of the reply.                                              *)
(***************************************************************************)
\* The layers of the bitmask q are among those of the bitmask of.
LayersWithin(q, of) == \A l \in {1, 2, 4} : Has(q, l) => Has(of, l)

\* ad_compat is set to a value the mechanism takes for true.
AdCompat(cfg) ==
    /\ "ad_compat" \in DOMAIN cfg.ExtraProps
    /\ cfg.ExtraProps["ad_compat"] \in {"1", "y", "on", "t"}

\* C26 (as amended): the QOP byte of the reply is not zero.  Without a
\* truthy ad_compat it is one layer that the peer offered and the local QOP
\* set holds.  With a truthy ad_compat the same holds unless confidentiality
\* is chosen: then the byte is confidentiality together with integrity,
\* confidentiality being offered by the peer and held locally, and
\* integrity being sent whether the peer offered it or not.
C26_ReplyQop ==
    (Exchanged(ret, calls) /\ Made(calls, "ctx.Wrap")) =>
        LET q     == ReplyQop(calls)
            offer == TheCall(calls, "ctx.Unwrap").res[1]
        IN /\ q # 0
           /\ IF AdCompat(gss.config) /\ Has(q, 4)
              THEN q = 6 /\ Has(offer, 4) /\ Has(gss.qop, 4)
              ELSE q \in {1, 2, 4} /\ LayersWithin(q, offer) /\ LayersWithin(q, gss.qop)

\* C26 as claimed: the QOP byte is not zero and its layers are among those
\* the peer offered and among those of the local QOP set, whatever the
\* configuration.
C26_ReplyQopWithinOffer ==
    (Exchanged(ret, calls) /\ Made(calls, "ctx.Wrap")) =>
        LET q     == ReplyQop(calls)
            offer == TheCall(calls, "ctx.Unwrap").res[1]
        IN q # 0 /\ LayersWithin(q, offer) /\ LayersWithin(q, gss.qop)

\* With ad_compat the reply names integrity to a peer that offered
\* confidentiality alone.
C26_Witness ==
    /\ Exchanged(ret, calls) /\ Made(calls, "ctx.Wrap") /\ ret.err = ErrNone
    /\ AdCompat(gss.config)
    /\ TheCall(calls, "ctx.Unwrap").res[1] = 4
    /\ ReplyQop(calls) = 6
(***************************************************************************)
(* Steps that return an error.                                             *)
(***************************************************************************)
\* C27 (as claimed): a step of the mechanism that returns an error leaves
\* its state, its ssf and its maximum peer message size as they were.
C27_FailedStepKeepsFields ==
    [][ (ret'.op \in {"Step", "mech.Step"} /\ gss.state >= 0 /\ ret'.err # ErrNone) =>
            /\ gss'.state = gss.state
            /\ gss'.ssf = gss.ssf
            /\ gss'.maxOutputBufferSz = gss.maxOutputBufferSz ]_vars

\* The part that holds: a failed step never moves the state.
FailedStepKeepsState ==
    [][ (ret'.op \in {"Step", "mech.Step"} /\ gss.state >= 0 /\ ret'.err # ErrNone) =>
            gss'.state = gss.state ]_vars

\* A failed step changes ssf or the size only when its last call, the
\* wrapping of the reply, failed.
FailedStepChangesOnlyAtWrap ==
    [][ ( /\ ret'.op \in {"Step", "mech.Step"} /\ gss.state >= 0 /\ ret'.err # ErrNone
          /\ (gss'.ssf # gss.ssf \/ gss'.maxOutputBufferSz # gss.maxOutputBufferSz) ) =>
            /\ gss.state = stateSSFCap
            /\ ret'.err = ErrGssWrap
            /\ calls'[Len(calls')].f = "ctx.Wrap" ]_vars
(***************************************************************************)
(* Initiating the context.                                                 *)
(***************************************************************************)
\* C28 (as claimed): once the context has been initiated, no step of the
\* mechanism in Authenticating, whatever its token, calls Initiate again
\* or assigns the local QOP set; the context is initiated at most once.
C28_InitiatedOnce ==
    [][ (ret'.op \in {"Step", "mech.Step"} /\ gss.state = stateAuthenticating
            /\ ctx.initiated >= 1) =>
            /\ ~Made(calls', "ctx.Initiate")
            /\ ctx'.initiated = 1
            /\ gss'.qop = gss.qop ]_vars

\* The part that holds: a step with a token that is not nil never
\* initiates and never assigns the local QOP set.
TokenStepNeverInitiates ==
    [][ (ret'.op \in {"Step", "mech.Step"} /\ gss.state >= 0 /\ ret'.in # Nil) =>
            /\ ~Made(calls', "ctx.Initiate")
            /\ ctx'.initiated = ctx.initiated
            /\ gss'.qop = gss.qop ]_vars
(***************************************************************************)
(* The ssf and the chosen QOP.                                             *)
(***************************************************************************)
\* C29 (as claimed): when the exchange of security layers ends in
\* Authenticated, ssf is 0 exactly when the chosen QOP is none, 1 exactly
\* when it is integrity, and above 1 exactly when it includes
\* confidentiality, whatever strength the context reports.
C29_SsfMatchesQop ==
    Negotiated(ret, calls, gss) =>
        LET q == ReplyQop(calls) IN
        /\ gss.ssf = 0 <=> q = 1
        /\ gss.ssf = 1 <=> q = 2
        /\ gss.ssf > 1 <=> Has(q, 4)

\* The part that holds: none gives ssf 0, integrity gives ssf 1, and
\* confidentiality gives the strength the context reports, which may be 0
\* or 1.
SsfAsCoded ==
    Negotiated(ret, calls, gss) =>
        LET q == ReplyQop(calls) IN
        /\ q = 1 => gss.ssf = 0
        /\ q = 2 => gss.ssf = 1
        /\ Has(q, 4) => gss.ssf = TheCall(calls, "ctx.SSF").res[1]

====
